---- MODULE Spec2Model ----
(***************************************************************************)
(* Streaming event conversion of the gateway: the backend (ConverseStream) *)
(* events of one request are turned into Anthropic "Messages" client       *)
(* events by one of two converters,                                        *)
(*   - process_anthropic_stream   (chat/src/providers/anthropic.rs), a     *)
(*     generator with started/thinking index sets, and                     *)
(*   - EventConverter::convert    (anthropic-response/src/stream.rs), the  *)
(*     converter the spawned task of process_bedrock_stream                *)
(*     (chat/src/provider/anthropic.rs) drives.                            *)
(* Option<T> is modelled as a sequence: <<>> is None, <<x>> is Some(x).    *)
(***************************************************************************)
EXTENDS Integers, Sequences, FiniteSets, TLC

VARIABLES
    impl,                       \* which converter serves the request
    input,                      \* backend events the converter has consumed
    out,                        \* client events emitted so far, in order
    usage_calls,                \* arguments of the usage_callback invocations
    finished,                   \* the receive loop has been left
    \* locals of process_anthropic_stream
    usage_tracker,
    bedrock_usage,
    started_content_blocks,
    thinking_content_blocks,
    stop_reason_opt,
    \* fields of EventConverter
    previous_converse_stream_output_type_is_message_start_or_content_block_stop,
    stop_reason,
    \* the spawned task of process_bedrock_stream and its surroundings
    task_pc,                    \* "idle" | "select" | "send" | "send_error" | "done"
    pending,                    \* client events of the current backend event not yet sent
    channel,                    \* the mpsc channel of capacity 1
    received,                   \* what the client has taken from the channel
    backend_ready,              \* Option: the result stream.recv() would return now
    backend_closed,             \* the backend has delivered end-of-stream or an error
    client,                     \* "reading" | "gone": the receiving end of the channel
    tick_due,                   \* the ping interval has elapsed
    ticks,                      \* heartbeat ticks that have fired
    \* an HTTP handler of the server (v1_messages, chat_completions)
    http_request,               \* Option: [endpoint, stream] of the request body
    handler_pc,                 \* "idle" | "received" | "calling" | "responded"
    backend_calls,              \* calls made to the backend for this request
    failure,                    \* Option: the error the handler returned
    http_status,                \* Option: the status of the HTTP response
    \* translation of request content into backend blocks
    contents,                   \* Option: [kind, blocks] to translate
    content_blocks,             \* Option: the Result of the translation
    \* a function of the request normaliser applied to its arguments
    call,                       \* Option: [fn, ...] the function and its arguments
    returned,                   \* Option: what the call returned
    \* the client-side tool-call accumulators
    tool_call_chunks,           \* the fragments received so far, in arrival order
    tool_calls_map,             \* Chat: the map the fragments are merged into
    request_tool_calls          \* Option: the Result of the finalisation

streamVars == <<impl, input, out, usage_calls, finished>>
generatorVars == <<usage_tracker, bedrock_usage, started_content_blocks,
                   thinking_content_blocks, stop_reason_opt>>
converterVars == <<previous_converse_stream_output_type_is_message_start_or_content_block_stop,
                   stop_reason>>
taskVars == <<task_pc, pending, channel, received, backend_ready, backend_closed,
              client, tick_due, ticks>>
handlerVars == <<http_request, handler_pc, backend_calls, failure, http_status>>
callVars == <<call, returned>>
accumulatorVars == <<tool_call_chunks, tool_calls_map, request_tool_calls>>
requestVars == <<contents, content_blocks, callVars, accumulatorVars>>
vars == <<streamVars, generatorVars, converterVars, taskVars, handlerVars, requestVars>>

(***************************************************************************)
(* Bounds of the exploration.                                              *)
(***************************************************************************)
\* longest backend event sequence explored in arbitrary order
MaxEvents == 3
\* longest backend event sequence explored in the backend's protocol order
MaxOrdered == 5
\* the same two bounds for a request served by the spawned task
MaxTaskEvents == 1
MaxTaskOrdered == 3
\* heartbeat ticks explored per request
MaxTicks == 1

None == <<>>
Some(x) == <<x>>
IsSome(o) == o # <<>>
Unwrap(o) == o[1]

Last(s) == s[Len(s)]

(***************************************************************************)
(* The backend's stream events (ConverseStreamOutput).                     *)
(***************************************************************************)
BlockIndices == {0, 1}

BedrockContentBlockStarts ==
    { [kind |-> "none"],
      [kind |-> "tool_use", tool_use_id |-> "t1", name |-> "f"] }

BedrockContentBlockDeltas ==
    { [kind |-> "none"],
      [kind |-> "text", text |-> "hi"],
      [kind |-> "tool_use", input |-> "{\"a\":1}"],
      [kind |-> "tool_use", input |-> ""],
      [kind |-> "reasoning_text", text |-> "hm"],
      [kind |-> "reasoning_signature", signature |-> "sig"] }

StopReasons == {"EndTurn", "ToolUse", "MaxTokens", "StopSequence", "ContentFiltered"}

TokenUsages == { [input_tokens |-> 10, output_tokens |-> 2, total_tokens |-> 12] }

ContentEvents ==
    { [type |-> "ContentBlockStart", content_block_index |-> i, start |-> s] :
          i \in BlockIndices, s \in BedrockContentBlockStarts }
    \cup
    { [type |-> "ContentBlockDelta", content_block_index |-> i, delta |-> d] :
          i \in BlockIndices, d \in BedrockContentBlockDeltas }
    \cup
    { [type |-> "ContentBlockStop", content_block_index |-> i] : i \in BlockIndices }

MessageStopEvents == { [type |-> "MessageStop", stop_reason |-> r] : r \in StopReasons }

MetadataEvents ==
    { [type |-> "Metadata", usage |-> u] : u \in {None} \cup {Some(t) : t \in TokenUsages} }

ConverseStreamOutput ==
    { [type |-> "MessageStart"], [type |-> "Unknown"] }
    \cup ContentEvents \cup MessageStopEvents \cup MetadataEvents

IsContent(e) ==
    e.type \in {"ContentBlockStart", "ContentBlockDelta", "ContentBlockStop"}

\* the content-block events of index i among s, in order
RECURSIVE BlockEvents(_, _)
BlockEvents(s, i) ==
    IF s = <<>> THEN <<>>
    ELSE LET rest == BlockEvents(Tail(s), i)
         IN  IF IsContent(Head(s)) /\ Head(s).content_block_index = i
             THEN <<Head(s)>> \o rest
             ELSE rest

\* The kind of content block in which the backend's protocol delivers a delta
\* (the variants of the SDK's ContentBlockDelta).  It describes the streams the
\* backend sends, for WellFormed below; the proxy's own choice of the block it
\* opens for a delta is GeneratorSynthesizedBlock and ConverterOpenedBlock.
ProtocolDeltaKind(d) ==
    CASE d.kind = "text" -> "text"
      [] d.kind = "tool_use" -> "tool_use"
      [] d.kind \in {"reasoning_text", "reasoning_signature"} -> "thinking"
      [] OTHER -> "none"

\* The events p of one index are a prefix of a block as the backend delivers it:
\* an explicit ContentBlockStart only for a tool-use block, then one or more
\* deltas of the block's kind, then one ContentBlockStop.
WellFormedBlock(p) ==
    IF p = <<>> THEN TRUE
    ELSE
       LET explicit == p[1].type = "ContentBlockStart"
           body == IF explicit THEN Tail(p) ELSE p
           kind == IF explicit THEN "tool_use"
                   ELSE IF p[1].type = "ContentBlockDelta"
                        THEN ProtocolDeltaKind(p[1].delta) ELSE "none"
       IN  /\ kind # "none"
           /\ explicit => p[1].start.kind = "tool_use"
           /\ \A k \in 1..Len(body) :
                 \/ /\ body[k].type = "ContentBlockDelta"
                    /\ ProtocolDeltaKind(body[k].delta) = kind
                 \/ /\ body[k].type = "ContentBlockStop"
                    /\ k = Len(body)
                    /\ k > 1

WellFormed(s) == \A i \in BlockIndices : WellFormedBlock(BlockEvents(s, i))

\* The backend's protocol order: MessageStart, the content blocks, MessageStop,
\* Metadata.
Phase(e) ==
    CASE e.type = "MessageStart" -> 0
      [] IsContent(e) -> 1
      [] e.type = "MessageStop" -> 2
      [] e.type = "Metadata" -> 3
      [] OTHER -> 4

Ordered(s) ==
    /\ WellFormed(s)
    /\ \A k \in 1..Len(s) :
          /\ Phase(s[k]) < 4
          /\ (k = 1) <=> (Phase(s[k]) = 0)
          /\ k > 1 /\ Phase(s[k]) = 1 => Phase(s[k - 1]) \in {0, 1}
          /\ k > 1 /\ Phase(s[k]) = 2 => Phase(s[k - 1]) \in {0, 1}
          /\ k > 1 /\ Phase(s[k]) = 3 => Phase(s[k - 1]) = 2

\* the backend may deliver e after the events of s
CanDeliver(s, e) ==
    IF Len(s) < (IF task_pc = "idle" THEN MaxEvents ELSE MaxTaskEvents) THEN TRUE
    ELSE /\ Len(s) < (IF task_pc = "idle" THEN MaxOrdered ELSE MaxTaskOrdered)
         /\ Ordered(Append(s, e))

(***************************************************************************)
(* Client events.  The message id and the model name are per-request       *)
(* constants and the same in every event that carries them.                *)
(***************************************************************************)
MessageId == "msg_1"
ModelName == "model"

\* the placeholder format!("bedrock_proxy_sig_{}", Uuid::new_v4().simple())
PlaceholderSignature == "bedrock_proxy_sig_uuid"

\* AnthropicUsage::default()
DefaultUsage == [input_tokens |-> 0, output_tokens |-> 0]

ContentBlockStartEvent(i, block) ==
    [type |-> "content_block_start", index |-> i, content_block |-> block]

ContentBlockDeltaEvent(i, d) ==
    [type |-> "content_block_delta", index |-> i, delta |-> d]

ContentBlockStopEvent(i) == [type |-> "content_block_stop", index |-> i]

MessageStopEvent == [type |-> "message_stop"]

(***************************************************************************)
(* process_anthropic_stream: one action per arm of its receive loop.  The  *)
(* generator is suspended at every yield: an arm's action receives the     *)
(* backend event and runs the arm to its first yield, pending holds the    *)
(* events the arm has yet to yield, and Generator_Resume is the consumer's *)
(* next poll, which runs the arm from that yield to the next one.  A       *)
(* consumer that stops polling leaves the generator where it is.           *)
(***************************************************************************)
GeneratorMessageStart(usage) ==
    [type |-> "message_start",
     message |-> [id |-> MessageId, type |-> "message", role |-> "assistant",
                  model |-> ModelName, stop_reason |-> None, usage |-> usage]]

\* the content block a ContentBlockStart announces
GeneratorStartBlock(start) ==
    IF start.kind = "tool_use"
    THEN [type |-> "tool_use", id |-> start.tool_use_id, name |-> start.name,
          input |-> "{}"]
    ELSE [type |-> "text", text |-> ""]

\* the content block synthesized for a delta whose index has seen no start
GeneratorSynthesizedBlock(d) ==
    IF d.kind \in {"reasoning_text", "reasoning_signature"}
    THEN [type |-> "thinking", thinking |-> ""]
    ELSE [type |-> "text", text |-> ""]

\* Option<Delta>: the client delta a backend delta translates to
GeneratorDelta(d) ==
    CASE d.kind = "text" -> Some([type |-> "text_delta", text |-> d.text])
      [] d.kind = "tool_use" ->
            Some([type |-> "input_json_delta", partial_json |-> d.input])
      [] d.kind = "reasoning_text" ->
            Some([type |-> "thinking_delta", thinking |-> d.text])
      [] OTHER -> None

\* a ContentBlockDelta arm that never synthesizes the content_block_start
GeneratorDeltaEventsWithoutStart(started, e) ==
    LET delta == GeneratorDelta(e.delta)
    IN  IF IsSome(delta)
        THEN <<ContentBlockDeltaEvent(e.content_block_index, Unwrap(delta))>>
        ELSE <<>>

\* the events the ContentBlockDelta arm yields
GeneratorDeltaEvents(started, e) ==
    LET i == e.content_block_index
        synthesized ==
            IF i \notin started
            THEN <<ContentBlockStartEvent(i, GeneratorSynthesizedBlock(e.delta))>>
            ELSE <<>>
        delta == GeneratorDelta(e.delta)
    IN  synthesized \o
        (IF IsSome(delta) THEN <<ContentBlockDeltaEvent(i, Unwrap(delta))>> ELSE <<>>)

\* a ContentBlockStop arm that closes a thinking block without a signature
GeneratorStopEventsWithoutSignature(thinking, e) ==
    <<ContentBlockStopEvent(e.content_block_index)>>

\* the events the ContentBlockStop arm yields
GeneratorStopEvents(thinking, e) ==
    LET i == e.content_block_index
    IN  (IF i \in thinking
         THEN <<ContentBlockDeltaEvent(i, [type |-> "signature_delta",
                                           signature |-> PlaceholderSignature])>>
         ELSE <<>>)
        \o <<ContentBlockStopEvent(i)>>

GeneratorStopReason(r) ==
    CASE r = "EndTurn" -> "end_turn"
      [] r = "ToolUse" -> "tool_use"
      [] r = "MaxTokens" -> "max_tokens"
      [] r = "StopSequence" -> "stop_sequence"
      [] OTHER -> "unknown"

GeneratorMessageDelta(reason, usage) ==
    [type |-> "message_delta",
     delta |-> [stop_reason |-> Some(reason), stop_sequence |-> None],
     usage |-> usage]

\* a Metadata arm that yields message_stop ahead of message_delta
GeneratorMetadataEventsStopFirst(pending_reason, usage) ==
    IF IsSome(pending_reason)
    THEN <<MessageStopEvent, GeneratorMessageDelta(Unwrap(pending_reason), usage)>>
    ELSE <<>>

\* the events the Metadata arm yields, given the pending stop reason and the
\* usage tracker as the arm has updated it
GeneratorMetadataEvents(pending_reason, usage) ==
    IF IsSome(pending_reason)
    THEN <<GeneratorMessageDelta(Unwrap(pending_reason), usage), MessageStopEvent>>
    ELSE <<>>

\* the usage_callback invocations of the Metadata arm, made between its
\* message_delta and its message_stop
GeneratorMetadataCalls(usage_opt) ==
    IF IsSome(usage_opt) THEN <<Unwrap(usage_opt)>> ELSE <<>>

\* the generator is polled while it waits in stream.recv()
GeneratorRuns == impl = "process_anthropic_stream" /\ ~finished /\ pending = <<>>

\* the task state process_anthropic_stream leaves alone, all but pending
GeneratorTaskVars ==
    <<task_pc, channel, received, backend_ready, backend_closed, client, tick_due, ticks>>

Generator_MessageStart ==
    \E e \in {[type |-> "MessageStart"]} :
        /\ GeneratorRuns
        /\ CanDeliver(input, e)
        /\ input' = Append(input, e)
        /\ out' = Append(out, GeneratorMessageStart(usage_tracker))
        /\ UNCHANGED <<handlerVars, requestVars, impl, usage_calls, finished, generatorVars, converterVars, taskVars>>

Generator_ContentBlockStart ==
    \E e \in {c \in ContentEvents : c.type = "ContentBlockStart"} :
        /\ GeneratorRuns
        /\ CanDeliver(input, e)
        /\ input' = Append(input, e)
        /\ started_content_blocks' = started_content_blocks \cup {e.content_block_index}
        /\ out' = Append(out, ContentBlockStartEvent(e.content_block_index,
                                                     GeneratorStartBlock(e.start)))
        /\ UNCHANGED <<handlerVars, requestVars, impl, usage_calls, finished, usage_tracker, bedrock_usage,
                       thinking_content_blocks, stop_reason_opt, converterVars, taskVars>>

Generator_ContentBlockDelta ==
    \E e \in {c \in ContentEvents : c.type = "ContentBlockDelta"} :
        /\ GeneratorRuns
        /\ CanDeliver(input, e)
        /\ input' = Append(input, e)
        /\ started_content_blocks' = started_content_blocks \cup {e.content_block_index}
        /\ thinking_content_blocks' =
              IF /\ e.content_block_index \notin started_content_blocks
                 /\ e.delta.kind \in {"reasoning_text", "reasoning_signature"}
              THEN thinking_content_blocks \cup {e.content_block_index}
              ELSE thinking_content_blocks
        /\ LET events == GeneratorDeltaEvents(started_content_blocks, e)
           IN  /\ out' = IF events = <<>> THEN out ELSE Append(out, Head(events))
               /\ pending' = IF events = <<>> THEN <<>> ELSE Tail(events)
        /\ UNCHANGED <<handlerVars, requestVars, impl, usage_calls, finished, usage_tracker, bedrock_usage,
                       stop_reason_opt, converterVars, GeneratorTaskVars>>

Generator_ContentBlockStop ==
    \E e \in {c \in ContentEvents : c.type = "ContentBlockStop"} :
        /\ GeneratorRuns
        /\ CanDeliver(input, e)
        /\ input' = Append(input, e)
        /\ LET events == GeneratorStopEvents(thinking_content_blocks, e)
           IN  /\ out' = Append(out, Head(events))
               /\ pending' = Tail(events)
        /\ UNCHANGED <<handlerVars, requestVars, impl, usage_calls, finished, usage_tracker, bedrock_usage,
                       started_content_blocks, thinking_content_blocks, stop_reason_opt,
                       converterVars, GeneratorTaskVars>>

Generator_MessageStop ==
    \E e \in MessageStopEvents :
        /\ GeneratorRuns
        /\ CanDeliver(input, e)
        /\ input' = Append(input, e)
        /\ stop_reason_opt' = Some(GeneratorStopReason(e.stop_reason))
        /\ UNCHANGED <<handlerVars, requestVars, impl, out, usage_calls, finished, usage_tracker, bedrock_usage,
                       started_content_blocks, thinking_content_blocks,
                       converterVars, taskVars>>

Generator_Metadata ==
    \E e \in MetadataEvents :
        /\ GeneratorRuns
        /\ CanDeliver(input, e)
        /\ input' = Append(input, e)
        /\ usage_tracker' =
              IF IsSome(e.usage)
              THEN [input_tokens |-> Unwrap(e.usage).input_tokens,
                    output_tokens |-> Unwrap(e.usage).output_tokens]
              ELSE usage_tracker
        /\ bedrock_usage' = IF IsSome(e.usage) THEN e.usage ELSE bedrock_usage
        /\ LET events == GeneratorMetadataEvents(stop_reason_opt, usage_tracker')
           IN  /\ out' = IF events = <<>> THEN out ELSE Append(out, Head(events))
               /\ pending' = IF events = <<>> THEN <<>> ELSE Tail(events)
        /\ stop_reason_opt' = None
        /\ UNCHANGED <<handlerVars, requestVars, impl, usage_calls, finished,
                       started_content_blocks, thinking_content_blocks,
                       converterVars, GeneratorTaskVars>>

Generator_Unknown ==
    \E e \in {[type |-> "Unknown"]} :
        /\ GeneratorRuns
        /\ CanDeliver(input, e)
        /\ input' = Append(input, e)
        /\ UNCHANGED <<handlerVars, requestVars, impl, out, usage_calls, finished, generatorVars, converterVars,
                       taskVars>>

\* The consumer polls the generator suspended at a yield inside an arm: the arm
\* runs on to its next yield.  The ContentBlockStop arm first drops the index
\* from thinking_content_blocks; the Metadata arm first invokes usage_callback
\* and breaks out of the loop after the message_stop it resumes to.
Generator_Resume ==
    /\ impl = "process_anthropic_stream"
    /\ ~finished
    /\ pending # <<>>
    /\ LET e == input[Len(input)]
       IN  /\ thinking_content_blocks' =
                 IF e.type = "ContentBlockStop"
                 THEN thinking_content_blocks \ {e.content_block_index}
                 ELSE thinking_content_blocks
           /\ usage_calls' =
                 IF e.type = "Metadata"
                 THEN usage_calls \o GeneratorMetadataCalls(bedrock_usage)
                 ELSE usage_calls
           /\ finished' = (e.type = "Metadata")
    /\ out' = Append(out, Head(pending))
    /\ pending' = Tail(pending)
    /\ UNCHANGED <<handlerVars, requestVars, impl, input, usage_tracker, bedrock_usage,
                   started_content_blocks, stop_reason_opt, converterVars,
                   GeneratorTaskVars>>

\* Ok(None): the backend stream has ended
Generator_StreamEnd ==
    /\ GeneratorRuns
    /\ finished' = TRUE
    /\ UNCHANGED <<handlerVars, requestVars, impl, input, out, usage_calls, generatorVars, converterVars, taskVars>>

\* Err(e): the receive failed
Generator_StreamError ==
    /\ GeneratorRuns
    /\ out' = Append(out, [type |-> "error"])
    /\ finished' = TRUE
    /\ UNCHANGED <<handlerVars, requestVars, impl, input, usage_calls, generatorVars, converterVars, taskVars>>

GeneratorNext ==
    \/ Generator_MessageStart
    \/ Generator_ContentBlockStart
    \/ Generator_ContentBlockDelta
    \/ Generator_ContentBlockStop
    \/ Generator_MessageStop
    \/ Generator_Metadata
    \/ Generator_Unknown
    \/ Generator_Resume
    \/ Generator_StreamEnd
    \/ Generator_StreamError

(***************************************************************************)
(* EventConverter::convert: one action per arm of its match.  The events a *)
(* call returns are appended to out; a call returning None appends none.   *)
(***************************************************************************)
ConverterMessageStart ==
    [type |-> "message_start",
     message |-> [id |-> MessageId, type |-> "message", role |-> "assistant",
                  model |-> ModelName, stop_reason |-> None, usage |-> DefaultUsage]]

\* Option<ContentBlockDelta>
bedrock_content_block_delta_to_content_block_delta(d) ==
    CASE d.kind = "reasoning_signature" ->
            Some([type |-> "signature_delta", signature |-> d.signature])
      [] d.kind = "reasoning_text" ->
            Some([type |-> "thinking_delta", thinking |-> d.text])
      [] d.kind = "text" -> Some([type |-> "text_delta", text |-> d.text])
      [] d.kind = "tool_use" ->
            Some([type |-> "input_json_delta", partial_json |-> d.input])
      [] OTHER -> None

\* what the ContentBlockStart arm returns
ConverterStartEvents(e) ==
    IF e.start.kind = "tool_use"
    THEN <<ContentBlockStartEvent(e.content_block_index,
              [type |-> "tool_use", id |-> e.start.tool_use_id, name |-> e.start.name,
               input |-> "{}"])>>
    ELSE <<>>

\* an opened block that leaves the payload of the delta out
ConverterOpenedBlockEmpty(delta) ==
    CASE delta.type = "text_delta" -> Some([type |-> "text", text |-> ""])
      [] delta.type \in {"thinking_delta", "signature_delta"} ->
            Some([type |-> "thinking", thinking |-> "", signature |-> ""])
      [] OTHER -> None

\* Option<ContentBlock>: the block a translated delta opens when it follows a
\* MessageStart or a ContentBlockStop
ConverterOpenedBlock(delta) ==
    CASE delta.type = "text_delta" -> Some([type |-> "text", text |-> delta.text])
      [] delta.type = "thinking_delta" ->
            Some([type |-> "thinking", thinking |-> delta.thinking, signature |-> ""])
      [] delta.type = "signature_delta" ->
            Some([type |-> "thinking", thinking |-> "", signature |-> delta.signature])
      [] OTHER -> None

\* the arm's `if ... && let Some(content_block) = ...` holds
ConverterOpens(previous, e) ==
    LET delta == bedrock_content_block_delta_to_content_block_delta(e.delta)
    IN  IsSome(delta) /\ previous /\ IsSome(ConverterOpenedBlock(Unwrap(delta)))

\* what the ContentBlockDelta arm returns
ConverterDeltaEvents(previous, e) ==
    LET delta == bedrock_content_block_delta_to_content_block_delta(e.delta)
    IN  IF ~IsSome(delta) THEN <<>>
        ELSE IF ConverterOpens(previous, e)
        THEN <<ContentBlockStartEvent(e.content_block_index,
                                      Unwrap(ConverterOpenedBlock(Unwrap(delta))))>>
        ELSE <<ContentBlockDeltaEvent(e.content_block_index, Unwrap(delta))>>

\* what the ContentBlockStop arm returns
ConverterStopEvents(e) == <<ContentBlockStopEvent(e.content_block_index)>>

\* Option<String>
ConverterStopReason(r) ==
    CASE r = "EndTurn" -> Some("end_turn")
      [] r = "MaxTokens" -> Some("max_tokens")
      [] r = "StopSequence" -> Some("stop_sequence")
      [] r = "ToolUse" -> Some("tool_use")
      [] OTHER -> None

\* what the Metadata arm returns
ConverterMetadataEvents(reason, e) ==
    << [type |-> "message_delta",
        delta |-> [stop_reason |-> reason, stop_sequence |-> None],
        usage |-> [output_tokens |->
                     IF IsSome(e.usage) THEN Unwrap(e.usage).output_tokens ELSE 0]],
       MessageStopEvent >>

\* the usage_callback invocations of the Metadata arm
ConverterMetadataCalls(e) == IF IsSome(e.usage) THEN <<Unwrap(e.usage)>> ELSE <<>>

\* convert as a function of the converter's fields and the event
ConverterEvents(previous, reason, e) ==
    CASE e.type = "MessageStart" -> <<ConverterMessageStart>>
      [] e.type = "ContentBlockStart" -> ConverterStartEvents(e)
      [] e.type = "ContentBlockDelta" -> ConverterDeltaEvents(previous, e)
      [] e.type = "ContentBlockStop" -> ConverterStopEvents(e)
      [] e.type = "Metadata" -> ConverterMetadataEvents(reason, e)
      [] OTHER -> <<>>

ConverterPreviousAfter(previous, e) ==
    CASE e.type \in {"MessageStart", "ContentBlockStop"} -> TRUE
      [] e.type = "ContentBlockStart" -> FALSE
      [] e.type = "ContentBlockDelta" ->
            IF IsSome(bedrock_content_block_delta_to_content_block_delta(e.delta))
            THEN FALSE ELSE previous
      [] OTHER -> previous

ConverterStopReasonAfter(reason, e) ==
    IF e.type = "MessageStop" THEN ConverterStopReason(e.stop_reason) ELSE reason

ConverterCalls(e) == IF e.type = "Metadata" THEN ConverterMetadataCalls(e) ELSE <<>>

\* one call of event_converter.convert(&e)
Convert(e) ==
    /\ input' = Append(input, e)
    /\ previous_converse_stream_output_type_is_message_start_or_content_block_stop' =
          ConverterPreviousAfter(
              previous_converse_stream_output_type_is_message_start_or_content_block_stop, e)
    /\ stop_reason' = ConverterStopReasonAfter(stop_reason, e)
    /\ usage_calls' = usage_calls \o ConverterCalls(e)
    /\ out' = out \o ConverterEvents(
                 previous_converse_stream_output_type_is_message_start_or_content_block_stop,
                 stop_reason, e)

ConverterRuns == impl = "EventConverter"

Converter_MessageStart ==
    \E e \in {[type |-> "MessageStart"]} :
        /\ ConverterRuns
        /\ CanDeliver(input, e)
        /\ Convert(e)
        /\ UNCHANGED <<handlerVars, requestVars, impl, finished, generatorVars, taskVars>>

Converter_ContentBlockStart ==
    \E e \in {c \in ContentEvents : c.type = "ContentBlockStart"} :
        /\ ConverterRuns
        /\ CanDeliver(input, e)
        /\ Convert(e)
        /\ UNCHANGED <<handlerVars, requestVars, impl, finished, generatorVars, taskVars>>

Converter_ContentBlockDelta ==
    \E e \in {c \in ContentEvents : c.type = "ContentBlockDelta"} :
        /\ ConverterRuns
        /\ CanDeliver(input, e)
        /\ Convert(e)
        /\ UNCHANGED <<handlerVars, requestVars, impl, finished, generatorVars, taskVars>>

Converter_ContentBlockStop ==
    \E e \in {c \in ContentEvents : c.type = "ContentBlockStop"} :
        /\ ConverterRuns
        /\ CanDeliver(input, e)
        /\ Convert(e)
        /\ UNCHANGED <<handlerVars, requestVars, impl, finished, generatorVars, taskVars>>

Converter_MessageStop ==
    \E e \in MessageStopEvents :
        /\ ConverterRuns
        /\ CanDeliver(input, e)
        /\ Convert(e)
        /\ UNCHANGED <<handlerVars, requestVars, impl, finished, generatorVars, taskVars>>

Converter_Metadata ==
    \E e \in MetadataEvents :
        /\ ConverterRuns
        /\ CanDeliver(input, e)
        /\ Convert(e)
        /\ UNCHANGED <<handlerVars, requestVars, impl, finished, generatorVars, taskVars>>

Converter_Unknown ==
    \E e \in {[type |-> "Unknown"]} :
        /\ ConverterRuns
        /\ CanDeliver(input, e)
        /\ Convert(e)
        /\ UNCHANGED <<handlerVars, requestVars, impl, finished, generatorVars, taskVars>>

ConverterNext ==
    \/ Converter_MessageStart
    \/ Converter_ContentBlockStart
    \/ Converter_ContentBlockDelta
    \/ Converter_ContentBlockStop
    \/ Converter_MessageStop
    \/ Converter_Metadata
    \/ Converter_Unknown

(***************************************************************************)
(* One request, served by either converter.                                *)
(***************************************************************************)
TaskIdle ==
    /\ task_pc = "idle"
    /\ pending = <<>>
    /\ channel = <<>>
    /\ received = <<>>
    /\ backend_ready = None
    /\ backend_closed = FALSE
    /\ client = "reading"
    /\ tick_due = FALSE
    /\ ticks = 0

\* no HTTP request is being handled
HandlerIdle ==
    /\ http_request = None
    /\ handler_pc = "idle"
    /\ backend_calls = 0
    /\ failure = None
    /\ http_status = None

\* no request content is being translated
CallIdle ==
    /\ call = None
    /\ returned = None

\* no tool-call fragment has been received
AccumulatorIdle ==
    /\ tool_call_chunks = <<>>
    /\ tool_calls_map = <<>>
    /\ request_tool_calls = None

RequestIdle ==
    /\ contents = None
    /\ content_blocks = None
    /\ CallIdle
    /\ AccumulatorIdle

FreshState ==
    /\ input = <<>>
    /\ out = <<>>
    /\ usage_calls = <<>>
    /\ finished = FALSE
    /\ usage_tracker = DefaultUsage
    /\ bedrock_usage = None
    /\ started_content_blocks = {}
    /\ thinking_content_blocks = {}
    /\ stop_reason_opt = None
    /\ previous_converse_stream_output_type_is_message_start_or_content_block_stop = FALSE
    /\ stop_reason = None

Init ==
    /\ HandlerIdle
    /\ RequestIdle
    /\ impl \in {"process_anthropic_stream", "EventConverter"}
    /\ FreshState
    /\ TaskIdle

Next == GeneratorNext \/ ConverterNext

Spec == Init /\ [][Next]_vars

(***************************************************************************)
(* process_bedrock_stream (Messages path): the spawned task races the next *)
(* backend event against the next heartbeat tick (select!, biased towards  *)
(* the backend), converts with EventConverter and hands every client event *)
(* to the client through an mpsc channel of capacity 1.  What the backend  *)
(* and the timer do while the task is inside a send shows only at the next *)
(* select!, so their steps are taken there.                                *)
(***************************************************************************)
ChannelCapacity == 1

PingEvent == [type |-> "ping"]
ErrorItem == [type |-> "error"]

EndOfStream == [type |-> "EndOfStream"]
ReceiveError == [type |-> "ReceiveError"]

\* the backend has its next event ready for stream.recv()
Backend_Event ==
    \E e \in ConverseStreamOutput :
        /\ task_pc = "select"
        /\ backend_ready = None
        /\ ~backend_closed
        /\ CanDeliver(input, e)
        /\ backend_ready' = Some(e)
        /\ UNCHANGED <<handlerVars, requestVars, streamVars, generatorVars, converterVars, task_pc, pending, channel,
                       received, backend_closed, client, tick_due, ticks>>

\* the backend closes the stream, normally or with an error
Backend_Close ==
    \E r \in {EndOfStream, ReceiveError} :
        /\ task_pc = "select"
        /\ backend_ready = None
        /\ ~backend_closed
        /\ backend_ready' = Some(r)
        /\ backend_closed' = TRUE
        /\ UNCHANGED <<handlerVars, requestVars, streamVars, generatorVars, converterVars, task_pc, pending, channel,
                       received, client, tick_due, ticks>>

\* PING_INTERVAL has elapsed
Timer_Tick ==
    /\ task_pc = "select"
    /\ ~tick_due
    /\ ticks < MaxTicks
    /\ tick_due' = TRUE
    /\ ticks' = ticks + 1
    /\ UNCHANGED <<handlerVars, requestVars, streamVars, generatorVars, converterVars, task_pc, pending, channel,
                   received, backend_ready, backend_closed, client>>

\* select!: result = stream.recv() is Ok(Some(output))
Task_RecvEvent ==
    /\ task_pc = "select"
    /\ IsSome(backend_ready)
    /\ Unwrap(backend_ready) \in ConverseStreamOutput
    /\ Convert(Unwrap(backend_ready))
    /\ backend_ready' = None
    /\ pending' = ConverterEvents(
                     previous_converse_stream_output_type_is_message_start_or_content_block_stop,
                     stop_reason, Unwrap(backend_ready))
    /\ task_pc' = IF pending' = <<>> THEN "select" ELSE "send"
    /\ UNCHANGED <<handlerVars, requestVars, impl, finished, generatorVars, channel, received, backend_closed,
                   client, tick_due, ticks>>

\* the task returns: the backend stream, the interval and the sender are dropped
TaskReturns ==
    /\ task_pc' = "done"
    /\ finished' = TRUE
    /\ pending' = <<>>
    /\ backend_ready' = None
    /\ tick_due' = FALSE

\* select!: result = stream.recv() is Ok(None): break
Task_RecvEnd ==
    /\ task_pc = "select"
    /\ backend_ready = Some(EndOfStream)
    /\ TaskReturns
    /\ UNCHANGED <<handlerVars, requestVars, impl, input, out, usage_calls, generatorVars, converterVars,
                   channel, received, backend_closed, client, ticks>>

\* select!: result = stream.recv() is Err(e): send the error item, then break
Task_RecvError ==
    /\ task_pc = "select"
    /\ backend_ready = Some(ReceiveError)
    /\ backend_ready' = None
    /\ pending' = <<ErrorItem>>
    /\ task_pc' = "send_error"
    /\ UNCHANGED <<handlerVars, requestVars, streamVars, generatorVars, converterVars, channel, received,
                   backend_closed, client, tick_due, ticks>>

\* a tick branch that takes the tick and sends nothing
Task_PingSkipped ==
    /\ task_pc = "select"
    /\ backend_ready = None
    /\ tick_due
    /\ tick_due' = FALSE
    /\ UNCHANGED <<handlerVars, requestVars, streamVars, generatorVars, converterVars, task_pc, pending, channel,
                   received, backend_ready, backend_closed, client, ticks>>

\* select!: the backend has nothing ready and ping_interval.tick() completes
Task_Ping ==
    /\ task_pc = "select"
    /\ backend_ready = None
    /\ tick_due
    /\ tick_due' = FALSE
    /\ pending' = <<PingEvent>>
    /\ task_pc' = "send"
    /\ UNCHANGED <<handlerVars, requestVars, streamVars, generatorVars, converterVars, channel, received,
                   backend_ready, backend_closed, client, ticks>>

\* a send after which the task goes back to select! with events still to send
Task_SendOkBackToSelect ==
    /\ task_pc = "send"
    /\ client = "reading"
    /\ Len(channel) < ChannelCapacity
    /\ channel' = Append(channel, Head(pending))
    /\ pending' = Tail(pending)
    /\ task_pc' = "select"
    /\ UNCHANGED <<handlerVars, requestVars, streamVars, generatorVars, converterVars, received,
                   backend_ready, backend_closed, client, tick_due, ticks>>

\* timeout(EVENT_TX_SEND_TIMEOUT, event_tx.send(..)) is Ok(Ok(())): next item of the
\* for loop, or back to select!
Task_SendOk ==
    /\ task_pc = "send"
    /\ client = "reading"
    /\ Len(channel) < ChannelCapacity
    /\ channel' = Append(channel, Head(pending))
    /\ pending' = Tail(pending)
    /\ task_pc' = IF pending' = <<>> THEN "select" ELSE "send"
    /\ UNCHANGED <<handlerVars, requestVars, streamVars, generatorVars, converterVars, received,
                   backend_ready, backend_closed, client, tick_due, ticks>>

\* the send is Ok(Err(_)): the receiver is gone; return
Task_SendClosed ==
    /\ task_pc = "send"
    /\ client = "gone"
    /\ TaskReturns
    /\ UNCHANGED <<handlerVars, requestVars, impl, input, out, usage_calls, generatorVars, converterVars,
                   channel, received, backend_closed, client, ticks>>

\* the send is Err(_): the channel stayed full for EVENT_TX_SEND_TIMEOUT; return
Task_SendTimeout ==
    /\ task_pc = "send"
    /\ client = "reading"
    /\ Len(channel) = ChannelCapacity
    /\ TaskReturns
    /\ UNCHANGED <<handlerVars, requestVars, impl, input, out, usage_calls, generatorVars, converterVars,
                   channel, received, backend_closed, client, ticks>>

\* `let _ = timeout(.., event_tx.send(Err(..))).await; break`: the error item is
\* handed over if the channel takes it in time, and the task ends either way
Task_SendError ==
    /\ task_pc = "send_error"
    /\ channel' = IF client = "reading" /\ Len(channel) < ChannelCapacity
                  THEN Append(channel, Head(pending)) ELSE channel
    /\ TaskReturns
    /\ UNCHANGED <<handlerVars, requestVars, impl, input, out, usage_calls, generatorVars, converterVars,
                   received, backend_closed, client, ticks>>

\* the SSE response takes the next item of ReceiverStream
Client_Receive ==
    /\ client = "reading"
    /\ channel # <<>>
    /\ received' = Append(received, Head(channel))
    /\ channel' = Tail(channel)
    /\ UNCHANGED <<handlerVars, requestVars, streamVars, generatorVars, converterVars, task_pc, pending,
                   backend_ready, backend_closed, client, tick_due, ticks>>

\* the client disconnects: the receiver is dropped with whatever it holds
Client_Disconnect ==
    /\ client = "reading"
    /\ task_pc # "done"
    /\ client' = "gone"
    /\ channel' = <<>>
    /\ UNCHANGED <<handlerVars, requestVars, streamVars, generatorVars, converterVars, task_pc, pending, received,
                   backend_ready, backend_closed, tick_due, ticks>>

TaskInit ==
    /\ HandlerIdle
    /\ RequestIdle
    /\ impl = "process_bedrock_stream"
    /\ FreshState
    /\ task_pc = "select"
    /\ pending = <<>>
    /\ channel = <<>>
    /\ received = <<>>
    /\ backend_ready = None
    /\ backend_closed = FALSE
    /\ client = "reading"
    /\ tick_due = FALSE
    /\ ticks = 0

TaskNext ==
    \/ Backend_Event
    \/ Backend_Close
    \/ Timer_Tick
    \/ Task_RecvEvent
    \/ Task_RecvEnd
    \/ Task_RecvError
    \/ Task_Ping
    \/ Task_SendOk
    \/ Task_SendClosed
    \/ Task_SendTimeout
    \/ Task_SendError
    \/ Client_Receive
    \/ Client_Disconnect

SpecTask == TaskInit /\ [][TaskNext]_vars

(***************************************************************************)
(* process_bedrock_stream (Chat Completions path): the spawned task takes  *)
(* the backend events one by one, turns each into at most one chunk with   *)
(* converse_stream_output_to_chat_completions_response_builder, hands it   *)
(* to the client through an mpsc channel of capacity 1 and, once the loop  *)
(* is left by break, sends the [DONE] frame.  MessageStart carries the     *)
(* assistant role, as the backend sends it.                                *)
(***************************************************************************)
DoneFrame == [type |-> "done", data |-> "[DONE]"]

ChatChunk(delta, finish_reason, usage) ==
    [type |-> "chunk", delta |-> delta, finish_reason |-> finish_reason, usage |-> usage]

\* Choice::build: a choice without delta carries Delta::Empty
EmptyDelta == [kind |-> "empty"]

tool_use_block_delta_to_tool_call(d, index) ==
    [id |-> None, tool_type |-> "function", name |-> None,
     arguments |-> Some(d.input), index |-> Some(index)]

tool_use_block_start_to_tool_call(start, index) ==
    [id |-> Some(start.tool_use_id), tool_type |-> "function", name |-> Some(start.name),
     arguments |-> Some(""), index |-> Some(index)]

ChatFinishReason(r) ==
    CASE r = "EndTurn" -> Some("stop")
      [] r = "ToolUse" -> Some("tool_calls")
      [] r = "MaxTokens" -> Some("length")
      [] r = "StopSequence" -> Some("stop")
      [] OTHER -> None

ChatUsage(u) ==
    [prompt_tokens |-> u.input_tokens, completion_tokens |-> u.output_tokens,
     total_tokens |-> u.total_tokens]

\* Option<chunk>: what the builder of one backend event builds
converse_stream_output_to_chat_completions_response_builder(e) ==
    CASE e.type = "ContentBlockDelta" ->
            (CASE e.delta.kind = "text" ->
                     Some(ChatChunk([kind |-> "content", content |-> e.delta.text],
                                    None, None))
               [] e.delta.kind = "tool_use" ->
                     Some(ChatChunk(
                        [kind |-> "tool_calls",
                         tool_calls |-> <<tool_use_block_delta_to_tool_call(
                                             e.delta, e.content_block_index)>>],
                        None, None))
               [] e.delta.kind = "reasoning_text" ->
                     Some(ChatChunk([kind |-> "reasoning",
                                     reasoning_content |-> e.delta.text], None, None))
               [] OTHER -> None)
      [] e.type = "ContentBlockStart" ->
            IF e.start.kind = "tool_use"
            THEN Some(ChatChunk(
                    [kind |-> "tool_calls",
                     tool_calls |-> <<tool_use_block_start_to_tool_call(
                                         e.start, e.content_block_index)>>],
                    None, None))
            ELSE None
      [] e.type = "MessageStart" ->
            Some(ChatChunk([kind |-> "role", role |-> "assistant"], None, None))
      [] e.type = "MessageStop" ->
            Some(ChatChunk(EmptyDelta, ChatFinishReason(e.stop_reason), None))
      [] e.type = "Metadata" ->
            Some(ChatChunk(EmptyDelta, None,
                           IF IsSome(e.usage) THEN Some(ChatUsage(Unwrap(e.usage)))
                           ELSE None))
      [] OTHER -> None

\* the usage_callback invocations of the builder
ChatCalls(e) ==
    IF e.type = "Metadata" /\ IsSome(e.usage) THEN <<Unwrap(e.usage)>> ELSE <<>>

\* stream.recv() is Ok(Some(output))
Chat_RecvEvent ==
    /\ task_pc = "select"
    /\ IsSome(backend_ready)
    /\ Unwrap(backend_ready) \in ConverseStreamOutput
    /\ LET e == Unwrap(backend_ready)
           built == converse_stream_output_to_chat_completions_response_builder(e)
       IN  /\ input' = Append(input, e)
           /\ usage_calls' = usage_calls \o ChatCalls(e)
           /\ out' = out \o built
           /\ pending' = built
           /\ task_pc' = IF built = <<>> THEN "select" ELSE "send"
    /\ backend_ready' = None
    /\ UNCHANGED <<handlerVars, requestVars, impl, finished, generatorVars, converterVars, channel, received,
                   backend_closed, client, tick_due, ticks>>

\* an end of the stream after which the task is over without the [DONE] frame
Chat_RecvEndReturns ==
    /\ task_pc = "select"
    /\ backend_ready = Some(EndOfStream)
    /\ TaskReturns
    /\ UNCHANGED <<handlerVars, requestVars, impl, input, out, usage_calls, generatorVars, converterVars,
                   channel, received, backend_closed, client, ticks>>

\* stream.recv() is Ok(None): break, on to the [DONE] frame
Chat_RecvEnd ==
    /\ task_pc = "select"
    /\ backend_ready = Some(EndOfStream)
    /\ backend_ready' = None
    /\ pending' = <<DoneFrame>>
    /\ task_pc' = "send_done"
    /\ UNCHANGED <<handlerVars, requestVars, streamVars, generatorVars, converterVars, channel, received,
                   backend_closed, client, tick_due, ticks>>

\* stream.recv() is Err(e): on to the error item
Chat_RecvError ==
    /\ task_pc = "select"
    /\ backend_ready = Some(ReceiveError)
    /\ backend_ready' = None
    /\ pending' = <<ErrorItem>>
    /\ task_pc' = "send_error"
    /\ UNCHANGED <<handlerVars, requestVars, streamVars, generatorVars, converterVars, channel, received,
                   backend_closed, client, tick_due, ticks>>

\* the send of a chunk is Ok(Ok(())): back to stream.recv()
Chat_SendOk ==
    /\ task_pc = "send"
    /\ client = "reading"
    /\ Len(channel) < ChannelCapacity
    /\ channel' = Append(channel, Head(pending))
    /\ pending' = <<>>
    /\ task_pc' = "select"
    /\ UNCHANGED <<handlerVars, requestVars, streamVars, generatorVars, converterVars, received,
                   backend_ready, backend_closed, client, tick_due, ticks>>

\* the send of a chunk is Ok(Err(_)): the receiver is gone; return
Chat_SendClosed ==
    /\ task_pc = "send"
    /\ client = "gone"
    /\ TaskReturns
    /\ UNCHANGED <<handlerVars, requestVars, impl, input, out, usage_calls, generatorVars, converterVars,
                   channel, received, backend_closed, client, ticks>>

\* the send of a chunk is Err(_): the channel stayed full for the timeout; return
Chat_SendTimeout ==
    /\ task_pc = "send"
    /\ client = "reading"
    /\ Len(channel) = ChannelCapacity
    /\ TaskReturns
    /\ UNCHANGED <<handlerVars, requestVars, impl, input, out, usage_calls, generatorVars, converterVars,
                   channel, received, backend_closed, client, ticks>>

\* `let _ = timeout(.., event_tx.send(Err(..))).await; break`: whatever the send
\* came to, the task goes on to the [DONE] frame
Chat_SendError ==
    /\ task_pc = "send_error"
    /\ channel' = IF client = "reading" /\ Len(channel) < ChannelCapacity
                  THEN Append(channel, Head(pending)) ELSE channel
    /\ pending' = <<DoneFrame>>
    /\ task_pc' = "send_done"
    /\ UNCHANGED <<handlerVars, requestVars, streamVars, generatorVars, converterVars, received,
                   backend_ready, backend_closed, client, tick_due, ticks>>

\* `let _ = timeout(.., event_tx.send(Ok(..DONE_MESSAGE))).await`: the task ends
Chat_SendDone ==
    /\ task_pc = "send_done"
    /\ channel' = IF client = "reading" /\ Len(channel) < ChannelCapacity
                  THEN Append(channel, Head(pending)) ELSE channel
    /\ TaskReturns
    /\ UNCHANGED <<handlerVars, requestVars, impl, input, out, usage_calls, generatorVars, converterVars,
                   received, backend_closed, client, ticks>>

ChatInit ==
    /\ HandlerIdle
    /\ RequestIdle
    /\ impl = "chat_completions"
    /\ FreshState
    /\ task_pc = "select"
    /\ pending = <<>>
    /\ channel = <<>>
    /\ received = <<>>
    /\ backend_ready = None
    /\ backend_closed = FALSE
    /\ client = "reading"
    /\ tick_due = FALSE
    /\ ticks = 0

ChatNext ==
    \/ Backend_Event
    \/ Backend_Close
    \/ Chat_RecvEvent
    \/ Chat_RecvEnd
    \/ Chat_RecvError
    \/ Chat_SendOk
    \/ Chat_SendClosed
    \/ Chat_SendTimeout
    \/ Chat_SendError
    \/ Chat_SendDone
    \/ Client_Receive
    \/ Client_Disconnect

SpecChat == ChatInit /\ [][ChatNext]_vars

(***************************************************************************)
(* The spawned request task of either path.                                *)
(***************************************************************************)
RequestTaskInit == TaskInit \/ ChatInit

RequestTaskNext ==
    \/ impl = "process_bedrock_stream" /\ TaskNext
    \/ impl = "chat_completions" /\ ChatNext

SpecRequestTask == RequestTaskInit /\ [][RequestTaskNext]_vars

(***************************************************************************)
(* The request task under the scheduling the runtime gives it.  A spawned  *)
(* task that can take a step is polled (weak fairness of its steps), and   *)
(* interval_at keeps completing ticks for as long as the task lives (weak  *)
(* fairness of the timer).  The backend and the client are the             *)
(* environment: nothing obliges them to act.                               *)
(***************************************************************************)
\* PING_INTERVAL elapses after the receiver was dropped: no ping of this tick can
\* reach the client, so the tick is not counted against MaxTicks
Timer_TickAfterDisconnect ==
    /\ task_pc = "select"
    /\ ~tick_due
    /\ client = "gone"
    /\ ticks >= MaxTicks
    /\ tick_due' = TRUE
    /\ UNCHANGED <<handlerVars, requestVars, streamVars, generatorVars, converterVars, task_pc, pending, channel,
                   received, backend_ready, backend_closed, client, ticks>>

\* the steps of the task spawned by process_bedrock_stream of provider/anthropic.rs
MessagesTaskSteps ==
    /\ impl = "process_bedrock_stream"
    /\ \/ Task_RecvEvent
       \/ Task_RecvEnd
       \/ Task_RecvError
       \/ Task_Ping
       \/ Task_SendOk
       \/ Task_SendClosed
       \/ Task_SendTimeout
       \/ Task_SendError

\* the steps of the task spawned by process_bedrock_stream of provider/openai.rs
ChatTaskSteps ==
    /\ impl = "chat_completions"
    /\ \/ Chat_RecvEvent
       \/ Chat_RecvEnd
       \/ Chat_RecvError
       \/ Chat_SendOk
       \/ Chat_SendClosed
       \/ Chat_SendTimeout
       \/ Chat_SendError
       \/ Chat_SendDone

\* ping_interval of provider/anthropic.rs; provider/openai.rs has no interval
PingInterval ==
    /\ impl = "process_bedrock_stream"
    /\ \/ Timer_Tick
       \/ Timer_TickAfterDisconnect

RequestTaskFairNext ==
    \/ RequestTaskNext
    \/ impl = "process_bedrock_stream" /\ Timer_TickAfterDisconnect

SpecRequestTaskFair ==
    /\ RequestTaskInit
    /\ [][RequestTaskFairNext]_vars
    /\ WF_vars(MessagesTaskSteps)
    /\ WF_vars(ChatTaskSteps)
    /\ WF_vars(PingInterval)

(***************************************************************************)
(* BedrockChatCompletionsProvider::chat_completions_stream of              *)
(* chat/src/providers.rs: the Chat Completions loop written as an          *)
(* async_stream generator.  Each step is one stream.recv() together with   *)
(* the yield of its match arm; input records every result of recv, the     *)
(* receive errors and the end of the stream included.  What the SDK's      *)
(* receiver returns when it is asked again after an error is the           *)
(* backend's choice: an event, another error or the end of the stream.     *)
(***************************************************************************)
MaxReceiveErrors == 2

ReceiveErrors(s) == {k \in 1..Len(s) : s[k] = ReceiveError}

IsNotReceiveError(r) == r # ReceiveError

\* Ok(Some(output)): yield the response built from the output, whatever the
\* output is: the builder's chunk, and for an output the builder gives no
\* choice a response with "choices": []
ChatStream_RecvEvent ==
    \E e \in ConverseStreamOutput :
        LET built == converse_stream_output_to_chat_completions_response_builder(e)
            response == IF built = <<>> THEN [type |-> "chunk", choices |-> <<>>]
                        ELSE built[1]
        IN  /\ impl = "chat_completions_stream"
            /\ task_pc = "stream"
            /\ CanDeliver(SelectSeq(input, IsNotReceiveError), e)
            /\ input' = Append(input, e)
            /\ usage_calls' = usage_calls \o ChatCalls(e)
            /\ out' = Append(out, response)
            /\ UNCHANGED <<handlerVars, requestVars, impl, finished, generatorVars, converterVars, taskVars>>

\* Ok(None): break, then yield the [DONE] frame; the generator is exhausted
ChatStream_RecvEnd ==
    /\ impl = "chat_completions_stream"
    /\ task_pc = "stream"
    /\ input' = Append(input, EndOfStream)
    /\ out' = Append(out, DoneFrame)
    /\ finished' = TRUE
    /\ task_pc' = "done"
    /\ UNCHANGED <<handlerVars, requestVars, impl, usage_calls, generatorVars, converterVars, pending, channel,
                   received, backend_ready, backend_closed, client, tick_due, ticks>>

\* Err(e): yield the error item; the arm has no break, the loop goes on to the
\* next stream.recv()
ChatStream_RecvError ==
    /\ impl = "chat_completions_stream"
    /\ task_pc = "stream"
    /\ Cardinality(ReceiveErrors(input)) < MaxReceiveErrors
    /\ input' = Append(input, ReceiveError)
    /\ out' = Append(out, ErrorItem)
    /\ UNCHANGED <<handlerVars, requestVars, impl, usage_calls, finished, generatorVars, converterVars, taskVars>>

ChatStreamInit ==
    /\ HandlerIdle
    /\ RequestIdle
    /\ impl = "chat_completions_stream"
    /\ FreshState
    /\ task_pc = "stream"
    /\ pending = <<>>
    /\ channel = <<>>
    /\ received = <<>>
    /\ backend_ready = None
    /\ backend_closed = FALSE
    /\ client = "reading"
    /\ tick_due = FALSE
    /\ ticks = 0

ChatStreamNext ==
    \/ ChatStream_RecvEvent
    \/ ChatStream_RecvEnd
    \/ ChatStream_RecvError

\* the SSE response polls the generator for as long as it is not exhausted, and
\* every poll of stream.recv() completes
SpecChatStream == ChatStreamInit /\ [][ChatStreamNext]_vars /\ WF_vars(ChatStreamNext)

(***************************************************************************)
(* The HTTP handlers v1_messages, v1_messages_count_tokens and             *)
(* chat_completions, and the conversion of their errors into a response    *)
(* (impl From<E> for AppError).  An error is an anyhow::Error: either one  *)
(* that downcasts to SdkError<ConverseStreamError> or                      *)
(* SdkError<CountTokensError>, whose ServiceError and ResponseError        *)
(* variants carry the raw upstream response, or any other error.           *)
(***************************************************************************)
UpstreamStatuses == {400, 403, 429, 500, 503}

INTERNAL_SERVER_ERROR == 500

OK == 200

SdkErrors ==
    [source : {"SdkError<ConverseStreamError>", "SdkError<CountTokensError>"},
     variant : {"ServiceError", "ResponseError"},
     raw : {Some(c) : c \in UpstreamStatuses}]
    \cup
    [source : {"SdkError<ConverseStreamError>", "SdkError<CountTokensError>"},
     variant : {"DispatchFailure", "TimeoutError"},
     raw : {None}]

\* anyhow!("..") and bail!("..: {}", e): the message only, nothing to downcast to
AnyhowMessage == [source |-> "anyhow", variant |-> "message", raw |-> None]

Failures == SdkErrors \cup {AnyhowMessage}

\* SdkError::raw_response() of err.downcast_ref::<SdkError<E>>(), as a status
RawResponseStatus(err, source) ==
    IF err.source = source THEN err.raw ELSE None

\* http::StatusCode::from_u16(code).ok()
StatusCodeFromU16(code) ==
    IF 100 <= code /\ code < 1000 THEN Some(code) ELSE None

\* a plausible slip: only the ConverseStream error is looked at
AppErrorFromConverseStreamOnly(err) ==
    LET code == RawResponseStatus(err, "SdkError<ConverseStreamError>")
        status == IF IsSome(code) THEN StatusCodeFromU16(code[1]) ELSE None
    IN  IF IsSome(status) THEN status[1] ELSE INTERNAL_SERVER_ERROR

\* AppError::from(err).0
AppErrorFrom(err) ==
    LET converse == RawResponseStatus(err, "SdkError<ConverseStreamError>")
        code == IF IsSome(converse) THEN converse
                ELSE RawResponseStatus(err, "SdkError<CountTokensError>")
        status == IF IsSome(code) THEN StatusCodeFromU16(code[1]) ELSE None
    IN  IF IsSome(status) THEN status[1] ELSE INTERNAL_SERVER_ERROR

Endpoints == {"v1_messages", "v1_messages_count_tokens", "chat_completions"}

\* the deserialized bodies: V1MessagesCountTokensRequest has no stream field
HttpRequests ==
    [endpoint : {"v1_messages", "chat_completions"},
     stream : {None, Some(TRUE), Some(FALSE)}]
    \cup [endpoint : {"v1_messages_count_tokens"}, stream : {None}]

StreamIsFalse == http_request[1].stream = Some(FALSE)

\* return Err(e.into()): the handler's Result becomes the response
Respond(err) ==
    /\ failure' = Some(err)
    /\ http_status' = Some(AppErrorFrom(err))
    /\ handler_pc' = "responded"

\* if payload.stream == Some(false) { return Err(anyhow!(..).into()) }
Handler_RejectNonStreaming ==
    /\ handler_pc = "received"
    /\ StreamIsFalse
    /\ Respond(AnyhowMessage)
    /\ UNCHANGED <<http_request, backend_calls, requestVars, streamVars, generatorVars,
                   converterVars, taskVars>>

\* the provider fails while it builds the backend request (try_from(&request)?)
Handler_ProviderFailsBeforeCall ==
    /\ handler_pc = "received"
    /\ ~StreamIsFalse
    /\ Respond(AnyhowMessage)
    /\ UNCHANGED <<http_request, backend_calls, requestVars, streamVars, generatorVars,
                   converterVars, taskVars>>

\* converse_stream().send() or count_tokens().send()
Handler_CallBackend ==
    /\ handler_pc = "received"
    /\ ~StreamIsFalse
    /\ backend_calls' = backend_calls + 1
    /\ handler_pc' = "calling"
    /\ UNCHANGED <<http_request, failure, http_status, requestVars, streamVars,
                   generatorVars, converterVars, taskVars>>

\* the provider returns Err: the SdkError itself (`?`) or its text (bail!)
Handler_BackendFails ==
    /\ handler_pc = "calling"
    /\ \E err \in Failures : Respond(err)
    /\ UNCHANGED <<http_request, backend_calls, requestVars, streamVars, generatorVars,
                   converterVars, taskVars>>

\* Ok((StatusCode::OK, ..))
Handler_BackendAnswers ==
    /\ handler_pc = "calling"
    /\ http_status' = Some(OK)
    /\ handler_pc' = "responded"
    /\ UNCHANGED <<http_request, backend_calls, failure, requestVars, streamVars,
                   generatorVars, converterVars, taskVars>>

HandlerInit ==
    /\ impl = "handler"
    /\ FreshState
    /\ TaskIdle
    /\ RequestIdle
    /\ http_request \in {Some(r) : r \in HttpRequests}
    /\ handler_pc = "received"
    /\ backend_calls = 0
    /\ failure = None
    /\ http_status = None

HandlerNext ==
    \/ Handler_RejectNonStreaming
    \/ Handler_ProviderFailsBeforeCall
    \/ Handler_CallBackend
    \/ Handler_BackendFails
    \/ Handler_BackendAnswers

SpecHandler == HandlerInit /\ [][HandlerNext]_vars

(***************************************************************************)
(* Translation of the content of a Messages request into backend blocks    *)
(* (crate anthropic-request): the content of a user message, the content   *)
(* of an assistant message, the system prompt and the tool definitions.    *)
(* A block's payload (text, tool_use_id, name ...) is its position in the  *)
(* request, id; cache_control is the presence of the marker.               *)
(***************************************************************************)
MaxBlocks == 3

ResultOk(v) == [ok |-> TRUE, value |-> v]
ResultErr == [ok |-> FALSE, value |-> <<>>]

SupportedImageMediaTypes == {"image/gif", "image/jpeg", "image/png", "image/webp"}

SupportedDocumentMediaTypes ==
    {"application/msword", "application/pdf", "application/vnd.ms-excel",
     "application/vnd.openxmlformats-officedocument.spreadsheetml.sheet",
     "application/vnd.openxmlformats-officedocument.wordprocessingml.document",
     "text/csv", "text/html", "text/markdown", "text/plain"}

\* The data of a base64 source, character by character: the base64 of the
\* bytes 89 50 4E 47, and a text that is not base64.
PngData == <<"i", "V", "B", "O", "R", "w", "=", "=">>
NotBase64 == <<"!", "!", "n", "o", "t", " ", "b", "a", "s", "e", "6", "4", "!", "!">>

\* base64 sources of images: a supported media type with data that decodes and
\* with data that does not, and an unsupported media type
ImageSources ==
    { [media_type |-> "image/png", data |-> PngData],
      [media_type |-> "image/png", data |-> NotBase64],
      [media_type |-> "image/bmp", data |-> PngData] }

\* base64 sources of documents
DocumentSources ==
    { [media_type |-> "application/pdf", data |-> PngData],
      [media_type |-> "application/pdf", data |-> NotBase64] }

\* a block of the request: its type, its cache_control marker and its source
Shape(type, cache_control, source) ==
    [type |-> type, cache_control |-> cache_control,
     media_type |-> source.media_type, data |-> source.data]

\* the alphabet of general_purpose::STANDARD, each character at its value + 1
Base64Alphabet ==
    << "A", "B", "C", "D", "E", "F", "G", "H", "I", "J", "K", "L", "M",
       "N", "O", "P", "Q", "R", "S", "T", "U", "V", "W", "X", "Y", "Z",
       "a", "b", "c", "d", "e", "f", "g", "h", "i", "j", "k", "l", "m",
       "n", "o", "p", "q", "r", "s", "t", "u", "v", "w", "x", "y", "z",
       "0", "1", "2", "3", "4", "5", "6", "7", "8", "9", "+", "/" >>

Base64Value(ch) == (CHOOSE k \in 1..Len(Base64Alphabet) : Base64Alphabet[k] = ch) - 1

\* general_purpose::STANDARD.decode(data) is Ok: whole quanta of four characters
\* of the alphabet, the last one padded canonically with "=" and with no bits
\* set beyond its last byte
Base64Decodes(data) ==
    LET n == Len(data)
        padding == IF n >= 2 /\ data[n] = "=" /\ data[n - 1] = "=" THEN 2
                   ELSE IF n >= 1 /\ data[n] = "=" THEN 1
                   ELSE 0
        body == SubSeq(data, 1, n - padding)
        alphabet == {Base64Alphabet[k] : k \in 1..Len(Base64Alphabet)}
    IN  IF n % 4 # 0 THEN FALSE
        ELSE IF \E k \in 1..Len(body) : body[k] \notin alphabet THEN FALSE
        ELSE IF padding = 1 THEN Base64Value(body[Len(body)]) % 4 = 0
        ELSE IF padding = 2 THEN Base64Value(body[Len(body)]) % 16 = 0
        ELSE TRUE

\* UserContent: Text, Image, Document, ToolResult; the media_type and the data
\* of a tool_result are those of the image its content array holds, "" and
\* <<>> when its content is a string
UserContentShapes ==
    [type : {"text"}, cache_control : BOOLEAN, media_type : {""}, data : {<<>>}]
    \cup [type : {"tool_result"}, cache_control : BOOLEAN, media_type : {""}, data : {<<>>}]
    \cup {Shape("tool_result", cache_control, source) :
             cache_control \in BOOLEAN, source \in ImageSources}
    \cup {Shape("image", FALSE, source) : source \in ImageSources}
    \cup {Shape("document", FALSE, source) : source \in DocumentSources}

\* AssistantContent: Text, ToolUse, Thinking
AssistantContentShapes ==
    [type : {"text"}, cache_control : BOOLEAN, media_type : {""}, data : {<<>>}]
    \cup [type : {"tool_use", "thinking"}, cache_control : {FALSE}, media_type : {""},
          data : {<<>>}]

\* System::Text
SystemShapes == [type : {"text"}, cache_control : BOOLEAN, media_type : {""}, data : {<<>>}]

\* Tool
ToolShapes == [type : {"tool"}, cache_control : BOOLEAN, media_type : {""}, data : {<<>>}]

\* ContentBlock of content.rs: Text, Image, Document (with a title), ToolUse,
\* ToolResult (string content), Thinking
ContentBlockShapes ==
    [type : {"text"}, cache_control : BOOLEAN, media_type : {""}, data : {<<>>}]
    \cup {Shape("image", cache_control, source) :
             cache_control \in BOOLEAN, source \in ImageSources}
    \cup {Shape("document", cache_control, source) :
             cache_control \in BOOLEAN, source \in DocumentSources}
    \cup [type : {"tool_use", "tool_result", "thinking"}, cache_control : {FALSE},
          media_type : {""}, data : {<<>>}]

\* what is translated: UserContents, AssistantContents, Systems, a tool list,
\* or the content of a Message of message.rs with Role::User or Role::Assistant
ContentKinds == {"user", "assistant", "system", "tools", "user_message", "assistant_message"}

ShapesOf(kind) ==
    CASE kind = "user" -> UserContentShapes
      [] kind = "assistant" -> AssistantContentShapes
      [] kind = "system" -> SystemShapes
      [] kind = "tools" -> ToolShapes
      [] kind \in {"user_message", "assistant_message"} -> ContentBlockShapes

SeqsUpTo(S, n) == UNION {[1..k -> S] : k \in 0..n}

\* the blocks of an array, each with its position as payload
Numbered(shapes) ==
    [i \in 1..Len(shapes) |->
        [type |-> shapes[i].type, cache_control |-> shapes[i].cache_control,
         media_type |-> shapes[i].media_type, data |-> shapes[i].data, id |-> i]]

\* UserContents, AssistantContents, Systems: Array or String; tools: a slice
ArrayContents(kind, shapes) == [kind |-> kind, form |-> "array", blocks |-> Numbered(shapes)]

StringContents(kind) == [kind |-> kind, form |-> "string", blocks |-> <<>>]

\* a block of the backend's vocabulary
BedrockBlock(type, id) == [type |-> type, id |-> id]

\* ContentBlock::CachePoint / SystemContentBlock::CachePoint / Tool::CachePoint
CachePoint == BedrockBlock("CachePoint", 0)

\* if let Some(cache_control) = cache_control { blocks.push(CachePoint(..)) }
PushCachePoint(blocks, c) ==
    IF c.cache_control THEN Append(blocks, CachePoint) ELSE blocks

\* .collect::<Result<Vec<_>, _>>()?.into_iter().flatten().collect()
RECURSIVE CollectFlatten(_)
CollectFlatten(results) ==
    IF results = <<>> THEN ResultOk(<<>>)
    ELSE IF ~Head(results).ok THEN ResultErr
    ELSE LET rest == CollectFlatten(Tail(results))
         IN  IF rest.ok THEN ResultOk(Head(results).value \o rest.value) ELSE ResultErr

\* TryFrom<&ImageSource> for ImageBlock is Ok: the media type is supported and
\* the data decodes
ImageBlockOk(c) ==
    IF c.media_type \in SupportedImageMediaTypes THEN Base64Decodes(c.data) ELSE FALSE

\* TryFrom<&DocumentSource> for DocumentBlock is Ok: the media type is supported
\* and the data decodes
DocumentBlockOk(c) ==
    IF c.media_type \in SupportedDocumentMediaTypes THEN Base64Decodes(c.data) ELSE FALSE

\* TryFrom<&ToolResultContents> for Vec<ToolResultContentBlock>: a string, or
\* an array whose image is converted with ImageBlock::try_from(source)?
ToolResultContentsOk(c) ==
    IF c.media_type = "" THEN TRUE ELSE ImageBlockOk(c)

\* a plausible slip: the cache_control of a tool result is not looked at
UserContentToBlocksToolResultUncached(c) ==
    CASE c.type = "text" ->
            ResultOk(PushCachePoint(<<BedrockBlock("Text", c.id)>>, c))
      [] c.type = "image" ->
            IF ImageBlockOk(c)
            THEN ResultOk(<<BedrockBlock("Image", c.id)>>)
            ELSE ResultErr
      [] c.type = "document" ->
            IF DocumentBlockOk(c)
            THEN ResultOk(<<BedrockBlock("Document", c.id), BedrockBlock("Text", 0)>>)
            ELSE ResultErr
      [] c.type = "tool_result" ->
            IF ToolResultContentsOk(c)
            THEN ResultOk(<<BedrockBlock("ToolResult", c.id)>>)
            ELSE ResultErr

\* TryFrom<&UserContent> for Option<Vec<ContentBlock>>; the text " " that
\* follows a document is BedrockBlock("Text", 0)
UserContentToBlocks(c) ==
    CASE c.type = "text" ->
            ResultOk(PushCachePoint(<<BedrockBlock("Text", c.id)>>, c))
      [] c.type = "image" ->
            IF ImageBlockOk(c)
            THEN ResultOk(<<BedrockBlock("Image", c.id)>>)
            ELSE ResultErr
      [] c.type = "document" ->
            IF DocumentBlockOk(c)
            THEN ResultOk(<<BedrockBlock("Document", c.id), BedrockBlock("Text", 0)>>)
            ELSE ResultErr
      [] c.type = "tool_result" ->
            IF ToolResultContentsOk(c)
            THEN ResultOk(PushCachePoint(<<BedrockBlock("ToolResult", c.id)>>, c))
            ELSE ResultErr

\* TryFrom<&UserContents> for Vec<ContentBlock>
UserContentsToBlocks(cs) ==
    IF cs.form = "string" THEN ResultOk(<<BedrockBlock("Text", 1)>>)
    ELSE CollectFlatten([i \in 1..Len(cs.blocks) |-> UserContentToBlocks(cs.blocks[i])])

\* TryFrom<&AssistantContent> for Vec<ContentBlock>
AssistantContentToBlocks(c) ==
    CASE c.type = "text" ->
            ResultOk(PushCachePoint(<<BedrockBlock("Text", c.id)>>, c))
      [] c.type = "tool_use" ->
            ResultOk(<<BedrockBlock("ToolUse", c.id)>>)
      [] c.type = "thinking" ->
            ResultOk(<<BedrockBlock("ReasoningContent", c.id)>>)

IsReasoningContent(b) == b.type = "ReasoningContent"

IsNotReasoningContent(b) == b.type # "ReasoningContent"

\* a plausible slip: the blocks are returned as translated, not partitioned
AssistantContentsToBlocksUnpartitioned(cs) ==
    IF cs.form = "string" THEN ResultOk(<<BedrockBlock("Text", 1)>>)
    ELSE CollectFlatten([i \in 1..Len(cs.blocks) |-> AssistantContentToBlocks(cs.blocks[i])])

\* TryFrom<&AssistantContents> for Vec<ContentBlock>
AssistantContentsToBlocks(cs) ==
    IF cs.form = "string" THEN ResultOk(<<BedrockBlock("Text", 1)>>)
    ELSE LET all_content_blocks ==
                 CollectFlatten([i \in 1..Len(cs.blocks) |->
                                    AssistantContentToBlocks(cs.blocks[i])])
         IN  IF ~all_content_blocks.ok THEN ResultErr
             ELSE ResultOk(SelectSeq(all_content_blocks.value, IsReasoningContent)
                           \o SelectSeq(all_content_blocks.value, IsNotReasoningContent))

\* TryFrom<&System> for Vec<SystemContentBlock>
SystemToBlocks(c) == ResultOk(PushCachePoint(<<BedrockBlock("Text", c.id)>>, c))

\* TryFrom<&Systems> for Vec<SystemContentBlock>
SystemsToBlocks(cs) ==
    IF cs.form = "string" THEN ResultOk(<<BedrockBlock("Text", 1)>>)
    ELSE CollectFlatten([i \in 1..Len(cs.blocks) |-> SystemToBlocks(cs.blocks[i])])

\* TryFrom<&Tool> for Vec<BedrockTool>
ToolToBedrockTools(c) == ResultOk(PushCachePoint(<<BedrockBlock("ToolSpec", c.id)>>, c))

\* tools_to_bedrock_tools: Ok(None) for an empty list
tools_to_bedrock_tools(cs) ==
    LET bedrock_tools ==
            CollectFlatten([i \in 1..Len(cs.blocks) |-> ToolToBedrockTools(cs.blocks[i])])
    IN  IF ~bedrock_tools.ok THEN ResultErr
        ELSE IF bedrock_tools.value = <<>> THEN ResultOk(None)
        ELSE ResultOk(Some(bedrock_tools.value))

\* TryFrom<&ContentBlock> for BedrockContentBlock (content.rs); a document's
\* data is decoded ahead of the match on its media type
ContentBlockToBedrock(block) ==
    CASE block.type = "text" -> ResultOk(BedrockBlock("Text", block.id))
      [] block.type = "image" ->
            IF ImageBlockOk(block)
            THEN ResultOk(BedrockBlock("Image", block.id))
            ELSE ResultErr
      [] block.type = "document" ->
            IF ~Base64Decodes(block.data) THEN ResultErr
            ELSE IF block.media_type \in SupportedDocumentMediaTypes
            THEN ResultOk(BedrockBlock("Document", block.id))
            ELSE ResultErr
      [] block.type = "tool_use" -> ResultOk(BedrockBlock("ToolUse", block.id))
      [] block.type = "tool_result" -> ResultOk(BedrockBlock("ToolResult", block.id))
      [] block.type = "thinking" -> ResultOk(BedrockBlock("ReasoningContent", block.id))

\* has_cache_control: Text, Image and Document only
HasCacheControl(block) ==
    IF block.type \in {"text", "image", "document"} THEN block.cache_control ELSE FALSE

\* the loop of TryFrom<&Message> for BedrockMessage over Content::Blocks:
\* thinking blocks are skipped, a block whose conversion fails is left out
RECURSIVE MessageBlocks(_)
MessageBlocks(blocks) ==
    IF blocks = <<>> THEN <<>>
    ELSE LET block == Head(blocks)
             converted == ContentBlockToBedrock(block)
         IN  (IF block.type = "thinking" THEN <<>>
              ELSE IF converted.ok
                   THEN <<converted.value>>
                        \o (IF HasCacheControl(block) THEN <<CachePoint>> ELSE <<>>)
                   ELSE <<>>)
             \o MessageBlocks(Tail(blocks))

\* TryFrom<&Message> for BedrockMessage (message.rs): the content of the message
MessageToBedrockMessage(cs) ==
    IF cs.form = "string" THEN ResultOk(<<BedrockBlock("Text", 1)>>)
    ELSE ResultOk(MessageBlocks(cs.blocks))

Translated(result) ==
    /\ IsSome(contents)
    /\ content_blocks = None
    /\ content_blocks' = Some(result)
    /\ UNCHANGED <<contents, callVars, accumulatorVars, handlerVars, streamVars,
                   generatorVars, converterVars, taskVars>>

Translate_UserContents ==
    /\ IsSome(contents) /\ contents[1].kind = "user"
    /\ Translated(UserContentsToBlocks(contents[1]))

Translate_AssistantContents ==
    /\ IsSome(contents) /\ contents[1].kind = "assistant"
    /\ Translated(AssistantContentsToBlocks(contents[1]))

Translate_Systems ==
    /\ IsSome(contents) /\ contents[1].kind = "system"
    /\ Translated(SystemsToBlocks(contents[1]))

Translate_Tools ==
    /\ IsSome(contents) /\ contents[1].kind = "tools"
    /\ Translated(tools_to_bedrock_tools(contents[1]))

Translate_Message ==
    /\ IsSome(contents) /\ contents[1].kind \in {"user_message", "assistant_message"}
    /\ Translated(MessageToBedrockMessage(contents[1]))

TranslationInit ==
    /\ impl = "anthropic-request"
    /\ FreshState
    /\ TaskIdle
    /\ HandlerIdle
    /\ \E kind \in ContentKinds :
          \/ \E k \in 0..MaxBlocks : \E shapes \in [1..k -> ShapesOf(kind)] :
                contents = Some(ArrayContents(kind, shapes))
          \/ kind # "tools" /\ contents = Some(StringContents(kind))
    /\ content_blocks = None
    /\ CallIdle
    /\ AccumulatorIdle

TranslationNext ==
    \/ Translate_UserContents
    \/ Translate_AssistantContents
    \/ Translate_Systems
    \/ Translate_Tools
    \/ Translate_Message

SpecTranslation == TranslationInit /\ [][TranslationNext]_vars

(***************************************************************************)
(* The vendor "additional fields" document, the beta-flag filter and the   *)
(* tool-choice translation of the request normaliser.                      *)
(*   anthropic-request/src/additional_model_request_fields.rs              *)
(*   anthropic-request/src/output_config.rs, anthropic_beta.rs,            *)
(*   thinking.rs, common/src/lib.rs, request/src/tool.rs,                  *)
(*   chat/src/bedrock.rs                                                   *)
(* A Document::Object is a function from its keys to its values, a         *)
(* Document::Array a sequence.  A string that is split or trimmed is a     *)
(* sequence of symbols: "," and " " are the comma and the space, every     *)
(* other symbol is a run of characters with neither of them.               *)
(***************************************************************************)
\* longest beta-flag list handed to get_additional_model_request_fields
MaxFlags == 2
\* most anthropic-beta headers of one request
MaxHeaders == 2

BetaFlags == {"interleaved-thinking-2025-05-14", "context-1m-2025-08-07"}
EffortBetaFlag == "effort-2025-11-24"

Thinkings == {[variant |-> "Enabled", budget_tokens |-> 1024], [variant |-> "Adaptive"]}
OutputConfigs ==
    {[variant |-> "Effort", effort |-> e] : e \in {"high", "low"}}
        \cup {[variant |-> "Format"], [variant |-> "Other"]}

\* impl From<&Thinking> for Document
ThinkingDocument(thinking) ==
    "thinking" :>
        (IF thinking.variant = "Enabled"
            THEN [type |-> "enabled", budget_tokens |-> thinking.budget_tokens]
            ELSE [type |-> "adaptive"])

effort_document(effort) ==
    ("output_config" :> [effort |-> effort]) @@ ("anthropic_beta" :> <<EffortBetaFlag>>)

\* the function additional_model_request_fields.rs calls for an effort config
get_output_config_effort_document(effort) == effort_document(effort)

get_anthropic_beta_document(anthropic_beta) ==
    IF anthropic_beta = <<>> THEN None ELSE Some("anthropic_beta" :> anthropic_beta)

ExtendDropped(map_a, map_b) == map_a

\* map_a.extend(map_b): the keys of map_b are inserted, replacing equal keys of map_a
Extend(map_a, map_b) ==
    [k \in DOMAIN map_a \cup DOMAIN map_b |-> IF k \in DOMAIN map_b THEN map_b[k] ELSE map_a[k]]

RECURSIVE ReduceExtend(_, _)
\* Iterator::reduce with the closure that extends the accumulator
ReduceExtend(a, documents) ==
    IF documents = <<>> THEN a
    ELSE ReduceExtend(Extend(a, documents[1]), Tail(documents))

RECURSIVE FlattenOptions(_)
\* Iterator::flatten over Options: the values that are present, in order
FlattenOptions(options) ==
    IF options = <<>> THEN <<>> ELSE options[1] \o FlattenOptions(Tail(options))

\* [..].into_iter().flatten().reduce(..)
MergeDocuments(options) ==
    LET documents == FlattenOptions(options)
    IN IF documents = <<>> THEN None
       ELSE Some(ReduceExtend(documents[1], Tail(documents)))

get_additional_model_request_fields(thinking, output_config, anthropic_beta) ==
    LET output_config_effort_document ==
            IF IsSome(output_config) /\ output_config[1].variant = "Effort"
                THEN Some(get_output_config_effort_document(output_config[1].effort))
                ELSE None
        anthropic_beta_document ==
            IF IsSome(anthropic_beta) THEN get_anthropic_beta_document(anthropic_beta[1])
            ELSE None
    IN MergeDocuments(<<IF IsSome(thinking) THEN Some(ThinkingDocument(thinking[1])) ELSE None,
                        output_config_effort_document,
                        anthropic_beta_document>>)

\* output_config.rs: the two-argument function
additional_model_request_fields(thinking, output_config) ==
    LET effort_doc ==
            IF IsSome(output_config) /\ output_config[1].variant = "Effort"
                THEN Some(effort_document(output_config[1].effort))
                ELSE None
    IN MergeDocuments(<<IF IsSome(thinking) THEN Some(ThinkingDocument(thinking[1])) ELSE None,
                        effort_doc>>)

Whitespace == {" "}

RECURSIVE Split(_, _)
\* str::split(','): the pieces between the commas, empty pieces included
Split(s, piece) ==
    IF s = <<>> THEN <<piece>>
    ELSE IF s[1] = "," THEN <<piece>> \o Split(Tail(s), <<>>)
    ELSE Split(Tail(s), Append(piece, s[1]))

RECURSIVE TrimStart(_)
TrimStart(s) == IF s # <<>> /\ s[1] \in Whitespace THEN TrimStart(Tail(s)) ELSE s

RECURSIVE TrimEnd(_)
TrimEnd(s) ==
    IF s # <<>> /\ s[Len(s)] \in Whitespace THEN TrimEnd(SubSeq(s, 1, Len(s) - 1)) ELSE s

\* str::trim
Trim(s) == TrimEnd(TrimStart(s))

\* str::trim().is_empty()
TrimIsEmpty(s) == Trim(s) = <<>>

RECURSIVE FlatMap(_, _)
FlatMap(Op(_), s) == IF s = <<>> THEN <<>> ELSE Op(s[1]) \o FlatMap(Op, Tail(s))

Contains(s, x) == \E i \in 1..Len(s) : s[i] = x

\* a header value: its bytes are text (HeaderValue::to_str succeeds) or not
HeaderValues ==
    {[to_str_ok |-> TRUE, text |-> t] :
        t \in {<<"context-1m-2025-08-07">>,
               <<"context-1m-2025-08-07", ",", "interleaved-thinking-2025-05-14">>,
               <<" ", "interleaved-thinking-2025-05-14", " ", ",", " ", "unknown-beta">>,
               <<"unknown-beta">>,
               <<"context-1m-2025-08-07", ",", "context-1m-2025-08-07">>}}
        \cup {[to_str_ok |-> FALSE, text |-> <<"context-1m-2025-08-07">>]}

\* an operator-configured whitelist: any list of flags
Whitelists == SeqsUpTo(BetaFlags, MaxFlags)

RequestedOf(headers) ==
    LET texts == SelectSeq(headers, LAMBDA v : v.to_str_ok)
        Pieces(v) == Split(v.text, <<>>)
        pieces == FlatMap(Pieces, texts)
    IN [i \in 1..Len(pieces) |-> Trim(pieces[i])]

FilterAnthropicBetaRequestOrder(headers, whitelist) ==
    LET requested == RequestedOf(headers)
        kept == SelectSeq(requested, LAMBDA r : Len(r) = 1 /\ Contains(whitelist, r[1]))
        v == [i \in 1..Len(kept) |-> kept[i][1]]
    IN IF v = <<>> THEN None ELSE Some(v)

filter_anthropic_beta(headers, whitelist) ==
    LET requested == RequestedOf(headers)
        v == SelectSeq(whitelist, LAMBDA b : Contains(requested, <<b>>))
    IN IF v = <<>> THEN None ELSE Some(v)

ToolChoiceStrings == {"auto", "any", "required", "none", "automatic"}
ToolChoices ==
    {[variant |-> "String", s |-> s] : s \in ToolChoiceStrings}
        \cup {[variant |-> "Object", function |-> [name |-> n]] : n \in {"get_weather", "f"}}

AutoToolChoice == [variant |-> "Auto"]
AnyToolChoice == [variant |-> "Any"]
SpecificToolChoice(name) == [variant |-> "Tool", name |-> name]

\* request/src/tool.rs: TryFrom<&ToolChoice> for Option<BedrockToolChoice>
ToolChoiceTryFrom(tool_choice) ==
    IF tool_choice.variant = "String"
        THEN IF tool_choice.s = "none" THEN ResultOk(None)
             ELSE IF tool_choice.s = "required" THEN ResultOk(Some(AnyToolChoice))
             ELSE ResultOk(Some(AutoToolChoice))
        ELSE ResultOk(Some(SpecificToolChoice(tool_choice.function.name)))

\* chat/src/bedrock.rs: the tool choice convert_openai_tools_to_bedrock_tool_config sets
convert_openai_tool_choice(tool_choice) ==
    IF ~IsSome(tool_choice) THEN None
    ELSE IF tool_choice[1].variant = "String"
        THEN IF tool_choice[1].s = "auto" THEN Some(AutoToolChoice)
             ELSE IF tool_choice[1].s \in {"required", "any"} THEN Some(AnyToolChoice)
             ELSE Some(AutoToolChoice)
        ELSE Some(SpecificToolChoice(tool_choice[1].function.name))

Options(S) == {None} \cup {Some(x) : x \in S}

Calls ==
    {[fn |-> "get_additional_model_request_fields", thinking |-> t, output_config |-> o,
      anthropic_beta |-> b] :
        t \in Options(Thinkings), o \in Options(OutputConfigs),
        b \in Options(SeqsUpTo(BetaFlags, MaxFlags))}
    \cup {[fn |-> "additional_model_request_fields", thinking |-> t, output_config |-> o] :
        t \in Options(Thinkings), o \in Options(OutputConfigs)}
    \cup {[fn |-> "filter_anthropic_beta", headers |-> h, whitelist |-> w] :
        h \in SeqsUpTo(HeaderValues, MaxHeaders), w \in Whitelists}
    \cup {[fn |-> "ToolChoice::try_from", tool_choice |-> c] : c \in ToolChoices}
    \cup {[fn |-> "convert_openai_tools_to_bedrock_tool_config", request_tool_choice |-> c] :
        c \in Options(ToolChoices)}

Returns(fn, value) ==
    /\ IsSome(call) /\ call[1].fn = fn
    /\ returned = None
    /\ returned' = Some(value)
    /\ UNCHANGED <<call, contents, content_blocks, accumulatorVars, handlerVars, streamVars,
                   generatorVars, converterVars, taskVars>>

Call_GetAdditionalModelRequestFields ==
    /\ IsSome(call) /\ call[1].fn = "get_additional_model_request_fields"
    /\ Returns("get_additional_model_request_fields",
               get_additional_model_request_fields(call[1].thinking, call[1].output_config,
                                                   call[1].anthropic_beta))

Call_AdditionalModelRequestFields ==
    /\ IsSome(call) /\ call[1].fn = "additional_model_request_fields"
    /\ Returns("additional_model_request_fields",
               additional_model_request_fields(call[1].thinking, call[1].output_config))

Call_FilterAnthropicBeta ==
    /\ IsSome(call) /\ call[1].fn = "filter_anthropic_beta"
    /\ Returns("filter_anthropic_beta",
               filter_anthropic_beta(call[1].headers, call[1].whitelist))

Call_ToolChoiceTryFrom ==
    /\ IsSome(call) /\ call[1].fn = "ToolChoice::try_from"
    /\ Returns("ToolChoice::try_from", ToolChoiceTryFrom(call[1].tool_choice))

Call_ConvertOpenAIToolChoice ==
    /\ IsSome(call) /\ call[1].fn = "convert_openai_tools_to_bedrock_tool_config"
    /\ Returns("convert_openai_tools_to_bedrock_tool_config",
               convert_openai_tool_choice(call[1].request_tool_choice))

CallInit ==
    /\ impl = "request-normaliser"
    /\ FreshState
    /\ TaskIdle
    /\ HandlerIdle
    /\ contents = None
    /\ content_blocks = None
    /\ AccumulatorIdle
    /\ call \in {Some(c) : c \in Calls}
    /\ returned = None

CallNext ==
    \/ Call_GetAdditionalModelRequestFields
    \/ Call_AdditionalModelRequestFields
    \/ Call_FilterAnthropicBeta
    \/ Call_ToolChoiceTryFrom
    \/ Call_ConvertOpenAIToolChoice

SpecCall == CallInit /\ [][CallNext]_vars

(***************************************************************************)
(* The client-side tool-call accumulators.  Three of them reassemble the   *)
(* tool-call fragments of a chat-completions delta stream:                 *)
(*   - processor::DeltaProcessor (client/src/processor/delta.rs) keeps the *)
(*     fragments and opens a call at each change of id,                    *)
(*   - DeltaProcessor (client/src/delta.rs) keeps the fragments and groups *)
(*     them by index,                                                      *)
(*   - Chat (client/src/lib.rs) merges each fragment into a map keyed by   *)
(*     index as it arrives.                                                *)
(* An arguments string is a sequence of symbols: " " is a space, every     *)
(* other symbol is a run of characters without whitespace, and no two      *)
(* sequences of runs spell the same string.                                *)
(***************************************************************************)
\* most fragments of one response
MaxFragments == 3

Accumulators == {"processor::DeltaProcessor", "DeltaProcessor", "Chat"}

\* response::Function and response::ToolCall, the fragment of a delta
Function(name, arguments) == [name |-> name, arguments |-> arguments]
ResponseToolCall(index, id, function) ==
    [index |-> index, id |-> id, tool_type |-> "function", function |-> function]

ResponseToolCalls ==
    {ResponseToolCall(Some(0), None, Some(Function(n, a))) :
        n \in {None}, a \in {Some(<<"{\"a\"">>), Some(<<"\":1}">>), Some(<<":1}">>),
                              Some(<<" ">>)}}
    \cup {ResponseToolCall(Some(0), None, Some(Function(Some("f"), None))),
          ResponseToolCall(Some(0), Some("call_1"), Some(Function(Some("f"), Some(<<>>)))),
          ResponseToolCall(Some(0), Some("call_1"), Some(Function(None, Some(<<"{\"a\"">>)))),
          ResponseToolCall(Some(1), Some("call_2"), Some(Function(Some("g"), None))),
          ResponseToolCall(Some(1), None, Some(Function(None, Some(<<"{}">>)))),
          ResponseToolCall(Some(0), Some("call_2"), None),
          ResponseToolCall(None, None, Some(Function(None, Some(<<" ">>)))),
          ResponseToolCall(Some(1), Some("call_1"), Some(Function(Some("f"), None)))}

\* request::tool::ToolCall
RequestToolCall(id, tool_type, name, arguments) ==
    [id |-> id, tool_type |-> tool_type, function |-> [name |-> name, arguments |-> arguments]]

EmptyObject == <<"{}">>

\* RequestToolCall { id, ..Default::default() }
new_request_tool_call(id) == RequestToolCall(id, "", "", <<>>)

\* processor/delta.rs 99-107: the name is replaced, the arguments are appended
ApplyFunction(tool_call, function) ==
    IF ~IsSome(function) THEN tool_call
    ELSE LET named == IF IsSome(function[1].name)
                        THEN [tool_call EXCEPT !.function.name = function[1].name[1]]
                        ELSE tool_call
         IN IF IsSome(function[1].arguments)
              THEN [named EXCEPT !.function.arguments = @ \o function[1].arguments[1]]
              ELSE named

RECURSIVE AccumulateById(_, _, _)
\* processor/delta.rs 84-108: the loop over the fragments
AccumulateById(chunks, calls, current_id) ==
    IF chunks = <<>> THEN ResultOk(calls)
    ELSE LET response_tool_call == chunks[1]
             opens == IF IsSome(response_tool_call.id)
                        THEN current_id # response_tool_call.id ELSE FALSE
             opened == IF opens
                        THEN Append(calls,
                                    new_request_tool_call(response_tool_call.id[1]))
                        ELSE calls
         IN IF opened = <<>> THEN ResultErr
            ELSE AccumulateById(
                    Tail(chunks),
                    [opened EXCEPT ![Len(opened)] =
                        ApplyFunction(@, response_tool_call.function)],
                    IF opens THEN response_tool_call.id ELSE current_id)

\* processor/delta.rs 110-114
DefaultEmptyArguments(tool_call) ==
    IF TrimIsEmpty(tool_call.function.arguments)
        THEN [tool_call EXCEPT !.function.arguments = EmptyObject]
        ELSE tool_call

response_tool_calls_to_request_tool_calls(response_tool_calls) ==
    LET accumulated == AccumulateById(response_tool_calls, <<>>, None)
    IN IF ~accumulated.ok THEN ResultErr
       ELSE ResultOk([i \in 1..Len(accumulated.value) |->
                        DefaultEmptyArguments(accumulated.value[i])])

\* DeltaProcessor::get_request_tool_calls: Ok(None), here Ok of no call, when no
\* fragment was received
get_request_tool_calls(response_tool_calls) ==
    IF response_tool_calls = <<>> THEN ResultOk(<<>>)
    ELSE response_tool_calls_to_request_tool_calls(response_tool_calls)

\* delta.rs 128-135: the entry a new index gets
NewIndexedToolCall == RequestToolCall("", "function", "", <<>>)

\* delta.rs 137-154: the id and the name are replaced, the arguments are
\* appended unless they are empty or whitespace
ApplyChunk(tool_call, chunk) ==
    LET with_id == IF IsSome(chunk.id) THEN [tool_call EXCEPT !.id = chunk.id[1]]
                   ELSE tool_call
    IN IF ~IsSome(chunk.function) THEN with_id
       ELSE LET named == IF IsSome(chunk.function[1].name)
                            THEN [with_id EXCEPT !.function.name = chunk.function[1].name[1]]
                            ELSE with_id
            IN IF IsSome(chunk.function[1].arguments)
                 THEN IF ~TrimIsEmpty(chunk.function[1].arguments[1])
                        THEN [named EXCEPT
                                !.function.arguments = @ \o chunk.function[1].arguments[1]]
                        ELSE named
                 ELSE named

\* a map with the entry of key k set to v
Insert(map, k, v) == [x \in DOMAIN map \cup {k} |-> IF x = k THEN v ELSE map[x]]

RECURSIVE ChunksByIndex(_, _)
\* delta.rs 122-155: the HashMap<i32, ToolCall> after the loop over the chunks
ChunksByIndex(chunks, tool_calls) ==
    IF chunks = <<>> THEN tool_calls
    ELSE LET chunk == chunks[1]
             index == IF IsSome(chunk.index) THEN chunk.index[1] ELSE 0
             tool_call == IF index \in DOMAIN tool_calls THEN tool_calls[index]
                          ELSE NewIndexedToolCall
         IN ChunksByIndex(Tail(chunks), Insert(tool_calls, index, ApplyChunk(tool_call, chunk)))

\* the order of String on the ids of the model
IdRank(id) == CASE id = "" -> 0 [] id = "call_1" -> 1 [] id = "call_2" -> 2

\* the orders into_values() can yield
ValueOrders(map) ==
    {s \in [1..Cardinality(DOMAIN map) -> DOMAIN map] :
        \A i, j \in 1..Cardinality(DOMAIN map) : i # j => s[i] # s[j]}

\* delta.rs 158-159: into_values() in any order, then a stable sort by id
SortedByIdOrders(tool_calls) ==
    {s \in ValueOrders(tool_calls) :
        \A i, j \in 1..Len(s) :
            i < j => IdRank(tool_calls[s[i]].id) <= IdRank(tool_calls[s[j]].id)}

\* serde_json::from_str::<Value>(arguments).is_ok() on the strings of the
\* model: whitespace around the tokens is skipped, and the documents the runs
\* can spell are {} and {"a":1}
IsJson(arguments) ==
    SelectSeq(arguments, LAMBDA c : c \notin Whitespace) \in {<<"{}">>, <<"{\"a\"", ":1}">>}

\* delta.rs 162-184
ValidateAndFix(tc) ==
    IF tc.id = "" THEN tc
    ELSE IF tc.function.name = "" THEN tc
    ELSE IF TrimIsEmpty(tc.function.arguments)
        THEN [tc EXCEPT !.function.arguments = EmptyObject]
    ELSE IF IsJson(tc.function.arguments) THEN tc
    ELSE [tc EXCEPT !.function.arguments = EmptyObject]

\* DeltaProcessor::build_tool_calls_from_chunks, for one order of the values
build_tool_calls_from_chunks(chunks, order) ==
    LET tool_calls == ChunksByIndex(chunks, <<>>)
    IN ResultOk([i \in 1..Len(order) |-> ValidateAndFix(tool_calls[order[i]])])

\* Chat::merge_tool_call
merge_tool_call(existing, new_call) ==
    LET merged == IF IsSome(new_call.id) THEN [existing EXCEPT !.id = new_call.id]
                  ELSE existing
    IN IF ~IsSome(new_call.function) THEN merged
       ELSE IF ~IsSome(existing.function) THEN [merged EXCEPT !.function = new_call.function]
       ELSE LET new_func == new_call.function[1]
                existing_func == existing.function[1]
                named == IF IsSome(new_func.name)
                            THEN [existing_func EXCEPT !.name = new_func.name]
                            ELSE existing_func
                merged_func ==
                    IF IsSome(new_func.arguments)
                        THEN IF ~TrimIsEmpty(new_func.arguments[1])
                            THEN IF IsSome(existing_func.arguments)
                                THEN [named EXCEPT !.arguments =
                                        Some(existing_func.arguments[1] \o new_func.arguments[1])]
                                ELSE [named EXCEPT !.arguments = new_func.arguments]
                            ELSE named
                        ELSE named
            IN [merged EXCEPT !.function = Some(merged_func)]

\* Chat::merge_or_insert_tool_call
merge_or_insert_tool_call(tool_call, map) ==
    LET key == IF IsSome(tool_call.index)
                THEN (IF tool_call.index[1] = 0 THEN "0" ELSE "1")
                ELSE "default"
    IN IF key \in DOMAIN map
         THEN Insert(map, key, merge_tool_call(map[key], tool_call))
         ELSE Insert(map, key, tool_call)

\* Chat::convert_to_request_tool_call panics on a call without function or name
ConvertPanics(tc) ==
    IF ~IsSome(tc.function) THEN TRUE ELSE ~IsSome(tc.function[1].name)

Panicked == [ok |-> FALSE, value |-> <<"panicked">>]

\* Chat::convert_to_request_tool_call
convert_to_request_tool_call(tc) ==
    LET function == tc.function[1]
        args == IF IsSome(function.arguments) THEN function.arguments[1] ELSE EmptyObject
        arguments == IF TrimIsEmpty(args) THEN EmptyObject ELSE args
    IN RequestToolCall(IF IsSome(tc.id) THEN tc.id[1] ELSE "", tc.tool_type,
                       function.name[1], arguments)

\* lib.rs 447-470: the values of the map in one order, each converted
convert_tool_calls(map, order) ==
    IF \E i \in 1..Len(order) : ConvertPanics(map[order[i]]) THEN Panicked
    ELSE ResultOk([i \in 1..Len(order) |-> convert_to_request_tool_call(map[order[i]])])

AccumulatorUnchanged ==
    UNCHANGED <<contents, content_blocks, callVars, handlerVars, impl, input, out,
                usage_calls, finished, generatorVars, converterVars, taskVars>>

\* processor/delta.rs 41-49: Delta::ToolCalls with one fragment
Processor_ToolCallsDelta ==
    /\ impl = "processor::DeltaProcessor"
    /\ request_tool_calls = None
    /\ Len(tool_call_chunks) < MaxFragments
    /\ \E tool_call \in ResponseToolCalls :
            tool_call_chunks' = Append(tool_call_chunks, tool_call)
    /\ UNCHANGED <<tool_calls_map, request_tool_calls>>
    /\ AccumulatorUnchanged

Processor_GetRequestToolCalls ==
    /\ impl = "processor::DeltaProcessor"
    /\ request_tool_calls = None
    /\ request_tool_calls' = Some(get_request_tool_calls(tool_call_chunks))
    /\ UNCHANGED <<tool_call_chunks, tool_calls_map>>
    /\ AccumulatorUnchanged

\* delta.rs 106-108: Delta::ToolCalls with one fragment
Delta_ToolCalls ==
    /\ impl = "DeltaProcessor"
    /\ request_tool_calls = None
    /\ Len(tool_call_chunks) < MaxFragments
    /\ \E tool_call \in ResponseToolCalls :
            tool_call_chunks' = Append(tool_call_chunks, tool_call)
    /\ UNCHANGED <<tool_calls_map, request_tool_calls>>
    /\ AccumulatorUnchanged

Delta_BuildToolCalls ==
    /\ impl = "DeltaProcessor"
    /\ request_tool_calls = None
    /\ \E order \in SortedByIdOrders(ChunksByIndex(tool_call_chunks, <<>>)) :
            request_tool_calls' = Some(build_tool_calls_from_chunks(tool_call_chunks, order))
    /\ UNCHANGED <<tool_call_chunks, tool_calls_map>>
    /\ AccumulatorUnchanged

\* lib.rs 562-572: process_tool_calls_delta with one fragment
Chat_ToolCallsDelta ==
    /\ impl = "Chat"
    /\ request_tool_calls = None
    /\ Len(tool_call_chunks) < MaxFragments
    /\ \E tool_call \in ResponseToolCalls :
            /\ tool_call_chunks' = Append(tool_call_chunks, tool_call)
            /\ tool_calls_map' = merge_or_insert_tool_call(tool_call, tool_calls_map)
    /\ UNCHANGED request_tool_calls
    /\ AccumulatorUnchanged

Chat_ConvertToolCalls ==
    /\ impl = "Chat"
    /\ request_tool_calls = None
    /\ \E order \in ValueOrders(tool_calls_map) :
            request_tool_calls' = Some(convert_tool_calls(tool_calls_map, order))
    /\ UNCHANGED <<tool_call_chunks, tool_calls_map>>
    /\ AccumulatorUnchanged

AccumulatorInit ==
    /\ impl \in Accumulators
    /\ FreshState
    /\ TaskIdle
    /\ HandlerIdle
    /\ RequestIdle

AccumulatorNext ==
    \/ Processor_ToolCallsDelta
    \/ Processor_GetRequestToolCalls
    \/ Delta_ToolCalls
    \/ Delta_BuildToolCalls
    \/ Chat_ToolCallsDelta
    \/ Chat_ConvertToolCalls

SpecAccumulator == AccumulatorInit /\ [][AccumulatorNext]_vars

(***************************************************************************)
(* The round trip of tool-use blocks through the Chat Completions stream:  *)
(* the task of process_bedrock_stream (provider/openai.rs) turns each      *)
(* backend event into a chunk with                                         *)
(* converse_stream_output_to_chat_completions_response_builder and sends   *)
(* it into the channel; the client polls the response stream, the chunk    *)
(* crosses the wire as JSON, and the client hands its tool-call fragment   *)
(* to one of the three accumulators.  The send may also find the client    *)
(* gone or the channel full for the whole timeout, and the task returns.   *)
(* A backend input string is one run of the accumulators' strings; the     *)
(* empty string is the empty sequence.                                     *)
(***************************************************************************)
MaxRoundTripEvents == 4

\* the tool-use block the backend opens at a content-block index
ToolUseBlockStart(index) ==
    IF index = 0 THEN [kind |-> "tool_use", tool_use_id |-> "call_1", name |-> "f"]
    ELSE [kind |-> "tool_use", tool_use_id |-> "call_2", name |-> "g"]

InputFragments == {"{\"a\"", ":1}", "{}", " "}

\* the indices of the blocks the backend has started in s
StartedBlocks(s) ==
    {s[k].content_block_index : k \in {j \in 1..Len(s) : s[j].type = "ContentBlockStart"}}

\* the events the backend may send next: the start of a block not yet started,
\* or a tool-use input delta of a started block
ToolUseEvents(s) ==
    { [type |-> "ContentBlockStart", content_block_index |-> i, start |-> ToolUseBlockStart(i)] :
          i \in BlockIndices \ StartedBlocks(s) }
    \cup { [type |-> "ContentBlockDelta", content_block_index |-> i,
            delta |-> [kind |-> "tool_use", input |-> f]] :
              i \in StartedBlocks(s), f \in InputFragments }

Symbols(string) == IF string = "" THEN <<>> ELSE <<string>>

\* serde: the ToolCall of a chunk as the client deserializes it; absent fields
\* (skip_serializing_if = "Option::is_none") come back as None
DeserializedToolCall(tc) ==
    ResponseToolCall(tc.index, tc.id,
                     Some(Function(tc.name,
                                   IF IsSome(tc.arguments) THEN Some(Symbols(tc.arguments[1]))
                                   ELSE None)))

\* the fragments the client finds in an item of the response stream
FragmentsOf(item) ==
    IF item.type # "chunk" THEN <<>>
    ELSE IF item.delta.kind # "tool_calls" THEN <<>>
    ELSE [k \in 1..Len(item.delta.tool_calls) |->
             DeserializedToolCall(item.delta.tool_calls[k])]

RECURSIVE MergeAll(_, _)
\* Chat::process_tool_calls_delta: merge_or_insert_tool_call for each fragment
MergeAll(fragments, map) ==
    IF fragments = <<>> THEN map
    ELSE MergeAll(Tail(fragments), merge_or_insert_tool_call(fragments[1], map))

\* stream.recv() is Ok(Some(output)) with a tool-use event: the task builds the
\* chunk and goes on to send it
RoundTrip_Event ==
    /\ task_pc = "select"
    /\ backend_ready = None
    /\ Len(input) < MaxRoundTripEvents
    /\ \E e \in ToolUseEvents(input) :
          LET built == converse_stream_output_to_chat_completions_response_builder(e)
          IN  /\ input' = Append(input, e)
              /\ usage_calls' = usage_calls \o ChatCalls(e)
              /\ out' = out \o built
              /\ pending' = built
              /\ task_pc' = IF built = <<>> THEN "select" ELSE "send"
    /\ UNCHANGED <<handlerVars, requestVars, impl, finished, generatorVars, converterVars, channel,
                   received, backend_ready, backend_closed, client, tick_due, ticks>>

\* the client's read loop takes the next item of the response stream: a chunk
\* is deserialized and its fragments go to the accumulator; at an error item
\* (`chunk?`) the loop returns the error and at [DONE] it breaks, and either
\* way the response is dropped with whatever it holds.  In
\* Chat::process_streaming_response the conversion of the map follows the
\* break without an await: the poll that reads [DONE] returns the calls
RoundTrip_ClientReceive ==
    /\ client = "reading"
    /\ channel # <<>>
    /\ request_tool_calls = None
    /\ received' = Append(received, Head(channel))
    /\ channel' = IF Head(channel).type = "chunk" THEN Tail(channel) ELSE <<>>
    /\ client' = IF Head(channel).type = "chunk" THEN "reading" ELSE "gone"
    /\ tool_call_chunks' = tool_call_chunks \o FragmentsOf(Head(channel))
    /\ tool_calls_map' = IF impl = "Chat"
                         THEN MergeAll(FragmentsOf(Head(channel)), tool_calls_map)
                         ELSE tool_calls_map
    /\ IF impl = "Chat" /\ Head(channel).type = "done"
         THEN \E order \in ValueOrders(tool_calls_map) :
                request_tool_calls' = Some(convert_tool_calls(tool_calls_map, order))
         ELSE request_tool_calls' = None
    /\ UNCHANGED <<contents, content_blocks, callVars, handlerVars, streamVars,
                   generatorVars, converterVars, task_pc, pending, backend_ready,
                   backend_closed, tick_due, ticks>>

\* the calls can be asked for.  The two processors answer
\* get_request_tool_calls and build_assistant_message once the read loop has
\* returned: it broke at [DONE], returned the error of an error item, or
\* stream.next() was None, the sender dropped and the channel empty.  Chat
\* converts in the poll that ends the loop: that of [DONE] is
\* RoundTrip_ClientReceive, and here it is the poll in which stream.next() is
\* None; after an error item process_streaming_response has returned the error
StreamRead ==
    IF received # <<>> /\ received[Len(received)].type \in {"done", "error"}
        THEN impl # "Chat"
    ELSE client = "reading" /\ task_pc = "done" /\ channel = <<>>

\* the accumulator builds the calls
RoundTrip_Finalize ==
    /\ StreamRead
    /\ \/ Processor_GetRequestToolCalls
       \/ Delta_BuildToolCalls
       \/ Chat_ConvertToolCalls

RoundTripInit ==
    /\ impl \in Accumulators
    /\ FreshState
    /\ HandlerIdle
    /\ RequestIdle
    /\ task_pc = "select"
    /\ pending = <<>>
    /\ channel = <<>>
    /\ received = <<>>
    /\ backend_ready = None
    /\ backend_closed = FALSE
    /\ client = "reading"
    /\ tick_due = FALSE
    /\ ticks = 0

RoundTripNext ==
    \/ RoundTrip_Event
    \/ Backend_Close
    \/ Chat_RecvEnd
    \/ Chat_RecvError
    \/ Chat_SendOk
    \/ Chat_SendClosed
    \/ Chat_SendTimeout
    \/ Chat_SendError
    \/ Chat_SendDone
    \/ RoundTrip_ClientReceive
    \/ Client_Disconnect
    \/ RoundTrip_Finalize

SpecRoundTrip == RoundTripInit /\ [][RoundTripNext]_vars

(***************************************************************************)
(* process_chat_completions_request_to_bedrock_chat_completion of          *)
(* chat/src/bedrock/openai.rs.  A request message carries its position in  *)
(* the request as its text, so that every backend block tells which        *)
(* message it came from.  Contents are of the String form; a request       *)
(* without tools has no tool configuration.                                *)
(***************************************************************************)
MaxMessages == 4

ToolCallArguments == {<<"{}">>, <<"{\"a\"">>}

RequestMessageShapes ==
    {[role |-> "system", has_contents |-> b, tool_calls |-> None] : b \in BOOLEAN}
    \cup {[role |-> "user", has_contents |-> b, tool_calls |-> None] : b \in BOOLEAN}
    \cup {[role |-> "assistant", has_contents |-> FALSE, tool_calls |-> None]}
    \cup {[role |-> "assistant", has_contents |-> TRUE, tool_calls |-> t] :
            t \in {None} \cup {Some(<<RequestToolCall("call_1", "function", "f", a)>>) :
                                a \in ToolCallArguments}}
    \cup {[role |-> "tool", has_contents |-> TRUE, tool_calls |-> None]}

\* the message lists of a request
RequestMessages ==
    {[k \in 1..Len(shapes) |->
        [role |-> shapes[k].role, has_contents |-> shapes[k].has_contents,
         tool_calls |-> shapes[k].tool_calls, tool_call_id |-> "call_1", text |-> k]] :
            shapes \in SeqsUpTo(RequestMessageShapes, MaxMessages)}

\* From<&Contents> for Vec<ContentBlock>, Contents::String
ContentsToContentBlocks(message) == <<[type |-> "text", text |-> message.text]>>

\* From<&SystemContents> for Vec<SystemContentBlock>, SystemContents::String
SystemContentsToBlocks(message) == <<[type |-> "text", text |-> message.text]>>

\* TryFrom<&ToolCall> for ToolUseBlock: the arguments must parse
ToolUseBlockTryFrom(tool_call) ==
    IF IsJson(tool_call.function.arguments)
        THEN ResultOk([type |-> "tool_use", tool_use_id |-> tool_call.id,
                       name |-> tool_call.function.name,
                       input |-> tool_call.function.arguments])
        ELSE ResultErr

\* TryFrom<&Message> for ToolResultBlock
ToolResultBlockTryFrom(message) ==
    ResultOk([type |-> "tool_result", tool_use_id |-> message.tool_call_id,
              text |-> message.text])

\* TryFrom<&Message> for Option<Vec<ContentBlock>>
MessageContentBlocks(message) ==
    CASE message.role = "tool" ->
            ResultOk(Some(<<ToolResultBlockTryFrom(message).value>>))
      [] message.role = "assistant" ->
            LET tool_calls == IF IsSome(message.tool_calls) THEN message.tool_calls[1] ELSE <<>>
                tool_uses == [k \in 1..Len(tool_calls) |-> ToolUseBlockTryFrom(tool_calls[k])]
            IN IF \E k \in 1..Len(tool_uses) : ~tool_uses[k].ok THEN ResultErr
               ELSE ResultOk(Some(
                        (IF message.has_contents THEN ContentsToContentBlocks(message)
                         ELSE <<>>)
                        \o [k \in 1..Len(tool_uses) |-> tool_uses[k].value]))
      [] OTHER ->
            ResultOk(IF message.has_contents THEN Some(ContentsToContentBlocks(message))
                     ELSE None)

\* BedrockMessage::builder()...build(): the content is a required member
BuildMessage(role, content) ==
    IF IsSome(content) THEN ResultOk([role |-> role, content |-> content[1]])
    ELSE ResultErr

\* TryFrom<&Message> for BedrockMessage, Assistant and User
MessageTryFrom(message) ==
    LET content == MessageContentBlocks(message)
    IN IF ~content.ok THEN ResultErr
       ELSE BuildMessage(message.role, content.value)

RECURSIVE ExtendWithToolResults(_, _)
\* message.rs 102-108: the loop over the tool messages
ExtendWithToolResults(messages, contents_so_far) ==
    IF messages = <<>> THEN contents_so_far
    ELSE ExtendWithToolResults(Tail(messages),
                               contents_so_far \o MessageContentBlocks(messages[1]).value[1])

convert_tool_messages_to_bedrock_message(messages) ==
    BuildMessage("user", Some(ExtendWithToolResults(messages, <<>>)))

RECURSIVE ToolRunEnd(_, _)

\* a run of one message: what the loop of openai.rs 28-36 would be without the
\* peek at the next message
ToolRunOfOne(messages, k) == k

\* openai.rs 26-36: the position of the last Tool message of the run that
\* starts at k
ToolRunEnd(messages, k) ==
    IF k >= Len(messages) THEN k
    ELSE IF messages[k + 1].role = "tool" THEN ToolRunEnd(messages, k + 1)
    ELSE k

\* openai.rs 57-72: empty lists become None
BedrockChatCompletion(messages, system_content_blocks) ==
    [messages |-> IF messages = <<>> THEN None ELSE Some(messages),
     system_content_blocks |-> IF system_content_blocks = <<>> THEN None
                               ELSE Some(system_content_blocks),
     tool_config |-> None]

RECURSIVE ProcessRequestMessages(_, _, _, _)
\* openai.rs 15-47: the loop over request.messages from position k on
ProcessRequestMessages(request_messages, k, messages, system_content_blocks) ==
    IF k > Len(request_messages)
        THEN ResultOk(BedrockChatCompletion(messages, system_content_blocks))
    ELSE LET request_message == request_messages[k]
         IN CASE request_message.role = "system" ->
                    ProcessRequestMessages(
                        request_messages, k + 1, messages,
                        IF request_message.has_contents
                            THEN system_content_blocks \o SystemContentsToBlocks(request_message)
                            ELSE system_content_blocks)
              [] request_message.role = "tool" ->
                    LET last == ToolRunEnd(request_messages, k)
                        bedrock_message == convert_tool_messages_to_bedrock_message(
                                               SubSeq(request_messages, k, last))
                    IN IF ~bedrock_message.ok THEN ResultErr
                       ELSE ProcessRequestMessages(request_messages, last + 1,
                                                   Append(messages, bedrock_message.value),
                                                   system_content_blocks)
              [] OTHER ->
                    LET bedrock_message == MessageTryFrom(request_message)
                    IN IF ~bedrock_message.ok THEN ResultErr
                       ELSE ProcessRequestMessages(request_messages, k + 1,
                                                   Append(messages, bedrock_message.value),
                                                   system_content_blocks)

process_chat_completions_request_to_bedrock_chat_completion(request_messages) ==
    ProcessRequestMessages(request_messages, 1, <<>>, <<>>)

Call_ProcessChatCompletionsRequest ==
    /\ IsSome(call)
    /\ call[1].fn = "process_chat_completions_request_to_bedrock_chat_completion"
    /\ Returns("process_chat_completions_request_to_bedrock_chat_completion",
               process_chat_completions_request_to_bedrock_chat_completion(call[1].messages))

ChatRequestInit ==
    /\ impl = "request-normaliser"
    /\ FreshState
    /\ TaskIdle
    /\ HandlerIdle
    /\ contents = None
    /\ content_blocks = None
    /\ AccumulatorIdle
    /\ call \in {Some([fn |-> "process_chat_completions_request_to_bedrock_chat_completion",
                       messages |-> m]) : m \in RequestMessages}
    /\ returned = None

ChatRequestNext == Call_ProcessChatCompletionsRequest

SpecChatRequest == ChatRequestInit /\ [][ChatRequestNext]_vars

(***************************************************************************)
(* Properties.                                                             *)
(***************************************************************************)
GeneratorServes == impl = "process_anthropic_stream"
ConverterServes == impl \in {"EventConverter", "process_bedrock_stream"}

\* the client events of content-block index i among s, in order
RECURSIVE ClientBlockEvents(_, _)
ClientBlockEvents(s, i) ==
    IF s = <<>> THEN <<>>
    ELSE LET rest == ClientBlockEvents(Tail(s), i)
         IN  IF /\ Head(s).type \in {"content_block_start", "content_block_delta",
                                     "content_block_stop"}
                /\ Head(s).index = i
             THEN <<Head(s)>> \o rest
             ELSE rest

IsPlaceholderSignature(ev) ==
    /\ ev.type = "content_block_delta"
    /\ ev.delta.type = "signature_delta"
    /\ ev.delta.signature = PlaceholderSignature

C1Input ==
    << [type |-> "MessageStart"],
       [type |-> "ContentBlockDelta", content_block_index |-> 0,
        delta |-> [kind |-> "text", text |-> "hi"]],
       [type |-> "ContentBlockStop", content_block_index |-> 0],
       [type |-> "MessageStop", stop_reason |-> "EndTurn"],
       [type |-> "Metadata",
        usage |-> <<[input_tokens |-> 10, output_tokens |-> 2, total_tokens |-> 12]>>] >>

C1Expected ==
    << [type |-> "message_start",
        message |-> [id |-> MessageId, type |-> "message", role |-> "assistant",
                     model |-> ModelName, stop_reason |-> <<>>,
                     usage |-> [input_tokens |-> 0, output_tokens |-> 0]]],
       [type |-> "content_block_start", index |-> 0,
        content_block |-> [type |-> "text", text |-> ""]],
       [type |-> "content_block_delta", index |-> 0,
        delta |-> [type |-> "text_delta", text |-> "hi"]],
       [type |-> "content_block_stop", index |-> 0],
       [type |-> "message_delta",
        delta |-> [stop_reason |-> <<"end_turn">>, stop_sequence |-> <<>>],
        usage |-> [input_tokens |-> 10, output_tokens |-> 2]],
       [type |-> "message_stop"] >>

\* C1: process_anthropic_stream, fed MessageStart, ContentBlockDelta(0, text "hi"),
\* ContentBlockStop(0), MessageStop(end_turn), Metadata(usage 10/2), has emitted
\* exactly message_start, content_block_start(0, text, ""), content_block_delta(0,
\* text_delta "hi"), content_block_stop(0), message_delta(end_turn, usage 10/2),
\* message_stop, in this order, and has left its loop, once its consumer has
\* polled the Metadata arm to its end; until then it has emitted the first of
\* the six and is suspended ahead of the rest.
C1_HiStreamEmitsSixEvents ==
    GeneratorServes /\ input = C1Input
    => /\ out \o pending = C1Expected
       /\ pending = <<>> => finished

C1_Witness == GeneratorServes /\ input = C1Input /\ Len(out) = 6

\* the block kind the backend events p of one index announce
BackendBlockKind(p) ==
    IF p[1].type = "ContentBlockStart" THEN "tool_use"
    ELSE ProtocolDeltaKind(p[1].delta)

\* the client events q of one index have the shape start, deltas, (placeholder
\* signature_delta for a thinking block), stop, as far as the backend events p of
\* that index have come
C2Shape(p, q) ==
    LET stopped == Last(p).type = "ContentBlockStop"
        thinking == BackendBlockKind(p) = "thinking"
        tail == (IF stopped THEN 1 ELSE 0) + (IF stopped /\ thinking THEN 1 ELSE 0)
    IN  /\ Len(q) >= 1 + tail
        /\ q[1].type = "content_block_start"
        /\ (q[1].content_block.type = "thinking") = thinking
        /\ \A k \in 2..(Len(q) - tail) :
              q[k].type = "content_block_delta" /\ ~IsPlaceholderSignature(q[k])
        /\ stopped => Last(q).type = "content_block_stop"
        /\ stopped /\ thinking => IsPlaceholderSignature(q[Len(q) - 1])

\* C2: in process_anthropic_stream, when every index receives its backend events as
\* (ContentBlockStart only for a tool-use block) deltas, ContentBlockStop, the
\* indices interleaved at will, the client events of each index are exactly one
\* content_block_start, then content_block_deltas, then for a thinking index one
\* synthetic signature_delta, then exactly one content_block_stop.  The events
\* of an arm are those it has yielded and those it yields when polled on.
C2_PerIndexOrder ==
    GeneratorServes /\ WellFormed(input) =>
        \A i \in BlockIndices :
            LET p == BlockEvents(input, i)
                q == ClientBlockEvents(out \o pending, i)
            IN  IF p = <<>> THEN q = <<>> ELSE C2Shape(p, q)

\* a thinking block of index 0 is complete and events of index 1 came in between
C2_Witness ==
    /\ GeneratorServes
    /\ WellFormed(input)
    /\ LET p == BlockEvents(input, 0)
       IN  /\ Len(p) >= 3
           /\ BackendBlockKind(p) = "thinking"
           /\ Last(p).type = "ContentBlockStop"
    /\ \E j, k, l \in 1..Len(input) :
          /\ j < k /\ k < l
          /\ IsContent(input[j]) /\ input[j].content_block_index = 0
          /\ IsContent(input[k]) /\ input[k].content_block_index = 1
          /\ IsContent(input[l]) /\ input[l].content_block_index = 0

\* the client events a step appends to out
NewEvents == SubSeq(out', Len(out) + 1, Len(out'))

\* a step that processes one backend event, the last of input'
Processed == input' # input

NonPing(s) == SelectSeq(s, LAMBDA x : x.type # "ping")

\* C3: in process_bedrock_stream, when the backend delivers a complete stream in
\* protocol order and the client receives every event, the first SSE event the
\* client receives is message_start and the last is message_stop, heartbeat pings
\* counted, however the heartbeat ticks fall between the backend's events.
C3_MessageStartFirstMessageStopLast ==
    ( /\ impl = "process_bedrock_stream"
      /\ task_pc = "done"
      /\ client = "reading"
      /\ channel = <<>>
      /\ input # <<>>
      /\ Ordered(input)
      /\ Last(input).type = "Metadata"
      /\ NonPing(received) = out )
    => /\ received[1].type = "message_start"
       /\ Last(received).type = "message_stop"

\* the stop reason a converter holds for the next Metadata
RecordedStopReason == IF GeneratorServes THEN stop_reason_opt ELSE stop_reason

KnownStopReasons ==
    [EndTurn |-> "end_turn", ToolUse |-> "tool_use", MaxTokens |-> "max_tokens",
     StopSequence |-> "stop_sequence"]

IsTerminal(ev) == ev.type \in {"message_delta", "message_stop"}

\* A step of an arm the generator is suspended in yields the arm's next event and
\* nothing else; a step that processes a backend event is judged by all the
\* events of its arm, those it yields and those it leaves to be polled.
C4Step ==
    LET e == Last(input')
        new == NewEvents \o pending'
        recorded == RecordedStopReason
    IN  IF pending # <<>>
        THEN /\ ~Processed
             /\ NewEvents = <<Head(pending)>>
             /\ pending' = Tail(pending)
             /\ RecordedStopReason' = recorded
        ELSE IF Processed /\ e.type = "MessageStop"
        THEN /\ new = <<>>
             /\ IF e.stop_reason \in DOMAIN KnownStopReasons
                THEN RecordedStopReason' = <<KnownStopReasons[e.stop_reason]>>
                ELSE \A r \in DOMAIN KnownStopReasons :
                        RecordedStopReason' # <<KnownStopReasons[r]>>
        ELSE IF Processed /\ e.type = "Metadata"
        THEN /\ IF new = <<>> THEN TRUE
                ELSE /\ Len(new) = 2
                     /\ new[1].type = "message_delta"
                     /\ new[1].delta.stop_reason = recorded
                     /\ new[2].type = "message_stop"
             /\ RecordedStopReason' \in {recorded, <<>>}
        ELSE /\ \A k \in 1..Len(new) : ~IsTerminal(new[k])
             /\ RecordedStopReason' = recorded

\* C4: in both converters a MessageStop emits nothing and only records the mapped
\* stop reason; message_delta and message_stop are emitted only while a Metadata is
\* processed, message_delta first and message_stop right after it, and that
\* message_delta carries the reason the most recent MessageStop recorded.
C4_TerminalEventsOnlyOnMetadata == [][C4Step]_vars

\* two MessageStop with different reasons, then the Metadata that emits the pair
C4_Witness ==
    /\ Len(input) = 3
    /\ input[1].type = "MessageStop"
    /\ input[2].type = "MessageStop"
    /\ input[1].stop_reason # input[2].stop_reason
    /\ input[3].type = "Metadata"
    /\ Len(out) = 2
    /\ out[1].type = "message_delta"
    /\ out[1].delta.stop_reason = <<KnownStopReasons[input[2].stop_reason]>>
    /\ out[2].type = "message_stop"

\* C5: in both converters a Metadata processed while no stop reason is pending emits
\* neither message_delta nor message_stop, so every message_delta emitted carries a
\* stop_reason that is not null.
C5_MessageDeltaCarriesStopReason ==
    \A k \in 1..Len(out) :
        out[k].type = "message_delta" => IsSome(out[k].delta.stop_reason)

\* the usage payloads of the Metadata events of s, in order
RECURSIVE MetadataUsages(_)
MetadataUsages(s) ==
    IF s = <<>> THEN <<>>
    ELSE (IF Head(s).type = "Metadata" THEN Head(s).usage ELSE <<>>)
         \o MetadataUsages(Tail(s))

\* C6: in both converters the usage callback has been invoked exactly once, with the
\* payload, as soon as the stream's Metadata carrying usage is processed, whether or
\* not a stop reason was pending, and has not been invoked otherwise.  The
\* Metadata is processed once its arm has run to its end.
C6_UsageCallbackOncePerUsage ==
    LET m == MetadataUsages(input)
    IN  Len(m) <= 1 /\ pending = <<>> => usage_calls = m

\* the empty content block of the kind a backend delta belongs to
EmptyBlockOf(d) ==
    CASE d.kind = "text" -> [type |-> "text", text |-> ""]
      [] d.kind = "reasoning_text" -> [type |-> "thinking", thinking |-> ""]
      [] d.kind = "reasoning_signature" -> [type |-> "thinking", thinking |-> ""]

\* the client delta that carries the payload of a backend delta
PayloadDeltaOf(d) ==
    CASE d.kind = "text" -> [type |-> "text_delta", text |-> d.text]
      [] d.kind = "reasoning_text" -> [type |-> "thinking_delta", thinking |-> d.text]
      [] d.kind = "reasoning_signature" ->
            [type |-> "signature_delta", signature |-> d.signature]

\* the content block of a content_block_start, without the signature field the
\* thinking block of EventConverter carries along
SameBlock(block, expected) ==
    /\ block.type = expected.type
    /\ block.type = "text" => block.text = expected.text
    /\ block.type = "thinking" => block.thinking = expected.thinking

C7Step ==
    LET e == Last(input')
        i == e.content_block_index
        new == NewEvents
    IN  ( /\ ConverterServes
          /\ Processed
          /\ Ordered(input')
          /\ e.type = "ContentBlockDelta"
          /\ e.delta.kind \in {"text", "reasoning_text", "reasoning_signature"}
          /\ BlockEvents(input, i) = <<>> )
        => /\ Len(new) = 2
           /\ new[1].type = "content_block_start"
           /\ new[1].index = i
           /\ SameBlock(new[1].content_block, EmptyBlockOf(e.delta))
           /\ new[2] = ContentBlockDeltaEvent(i, PayloadDeltaOf(e.delta))

\* C7: in EventConverter a text, reasoning-text or reasoning-signature delta that is
\* the first backend event of its index, in a stream in protocol order, produces two
\* events: a content_block_start of the matching kind with empty content, then a
\* content_block_delta that carries the payload.
C7_FirstDeltaEmitsStartThenDelta == [][C7Step]_vars

\* the content events of s come block after block, indices not interleaved
Sequential(s) ==
    \A j, k, l \in 1..Len(s) :
        ( /\ j < k /\ k < l
          /\ IsContent(s[j]) /\ IsContent(s[k]) /\ IsContent(s[l])
          /\ s[j].content_block_index = s[l].content_block_index )
        => s[k].content_block_index = s[j].content_block_index

\* the events p of one index are an optional ContentBlockStart, then deltas, then
\* the ContentBlockStop, as far as they have come; tool-use deltas only in a block
\* its ContentBlockStart opened as tool use
BlockStructured(p) ==
    \A k \in 1..Len(p) :
        /\ p[k].type = "ContentBlockStart" => k = 1
        /\ p[k].type = "ContentBlockStop" => k = Len(p) /\ k > 1
        /\ p[k].type = "ContentBlockDelta" =>
              /\ p[k].delta.kind # "none"
              /\ p[k].delta.kind = "tool_use" =>
                    p[1].type = "ContentBlockStart" /\ p[1].start.kind = "tool_use"

\* C8: in EventConverter, when the stream begins with MessageStart and delivers each
\* content block as an optional ContentBlockStart, its deltas and its
\* ContentBlockStop, every content_block_delta and content_block_stop of an index
\* comes after a content_block_start of that index.
C8_StartBeforeDeltaAndStop ==
    ( /\ ConverterServes
      /\ input # <<>>
      /\ input[1].type = "MessageStart"
      /\ \A k \in 2..Len(input) : IsContent(input[k])
      /\ Sequential(input)
      /\ \A i \in BlockIndices : BlockStructured(BlockEvents(input, i)) )
    => \A k \in 1..Len(out) :
          out[k].type \in {"content_block_delta", "content_block_stop"}
          => \E j \in 1..(k - 1) :
                /\ out[j].type = "content_block_start"
                /\ out[j].index = out[k].index

C9Step ==
    LET e == Last(input')
        i == e.content_block_index
        new == NewEvents
        before == BlockEvents(input, i)
    IN  IF ~Processed \/ input = <<>> THEN TRUE
        ELSE IF input[1].type # "MessageStart" THEN TRUE
        ELSE IF e.type = "ContentBlockStart" /\ before = <<>>
        THEN new = IF e.start.kind = "tool_use"
                   THEN <<ContentBlockStartEvent(i,
                             [type |-> "tool_use", id |-> e.start.tool_use_id,
                              name |-> e.start.name, input |-> "{}"])>>
                   ELSE <<>>
        ELSE IF /\ e.type = "ContentBlockDelta"
                /\ e.delta.kind \in {"text", "reasoning_text", "reasoning_signature"}
                /\ Len(before) = 1
                /\ before[1].type = "ContentBlockStart"
                /\ before[1].start.kind = "none"
        THEN /\ new # <<>>
             /\ new[1].type = "content_block_start"
             /\ new[1].index = i
        ELSE TRUE

\* C9: in both converters a ContentBlockStart emits a content_block_start right away
\* only when it carries a tool-use payload (tool_use with the id, the name and empty
\* input); without a payload it emits nothing, and the content_block_start of that
\* index is emitted when its first delta arrives.
C9_StartOnlyForToolUsePayload == [][C9Step]_vars

C10Input ==
    << [type |-> "ContentBlockDelta", content_block_index |-> 0,
        delta |-> [kind |-> "reasoning_text", text |-> "hm"]],
       [type |-> "ContentBlockDelta", content_block_index |-> 0,
        delta |-> [kind |-> "reasoning_signature", signature |-> "sig"]],
       [type |-> "ContentBlockStop", content_block_index |-> 0] >>

\* C10: in both converters ContentBlockDelta(0, reasoning text),
\* ContentBlockDelta(0, reasoning signature), ContentBlockStop(0) emit
\* content_block_start(0, thinking, empty), the thinking_delta, the backend's
\* signature_delta, a synthesized signature_delta and content_block_stop(0): two
\* signature_deltas in all, and index 0 is no longer held as thinking, once the
\* ContentBlockStop arm has run to its end.
C10_ThinkingBlockTwoSignatures ==
    ( /\ input = C10Input \/ input = <<[type |-> "MessageStart"]>> \o C10Input
      /\ pending = <<>> )
    => LET q == ClientBlockEvents(out, 0)
       IN  /\ Len(q) = 5
           /\ q[1].type = "content_block_start"
           /\ SameBlock(q[1].content_block, [type |-> "thinking", thinking |-> ""])
           /\ q[2] = ContentBlockDeltaEvent(0, [type |-> "thinking_delta",
                                                thinking |-> "hm"])
           /\ q[3] = ContentBlockDeltaEvent(0, [type |-> "signature_delta",
                                                signature |-> "sig"])
           /\ q[4].type = "content_block_delta"
           /\ q[4].delta.type = "signature_delta"
           /\ q[5] = ContentBlockStopEvent(0)
           /\ 0 \notin thinking_content_blocks

\* C11: in both converters a tool-use ContentBlockDelta whose input fragment is the
\* empty string produces no client event, so no input_json_delta with an empty
\* partial_json is ever emitted.
C11_NoEmptyInputJsonDelta ==
    \A k \in 1..Len(out) :
        (out[k].type = "content_block_delta" /\ out[k].delta.type = "input_json_delta")
        => out[k].delta.partial_json # ""

\* the converted client events among s: no ping, error item or [DONE] frame
Converted(s) == SelectSeq(s, LAMBDA x : x.type \notin {"ping", "error", "done"})

\* a step in which the task takes what stream.recv() has ready: an event, the end
\* of the stream or a receive error
TakesFromBackend == IsSome(backend_ready) /\ backend_ready' = None

C12Step ==
    /\ Len(channel) <= 1
    /\ Len(channel') <= 1
    /\ TakesFromBackend => pending = <<>>
    /\ (TakesFromBackend /\ client = "reading") => Converted(received \o channel) = out

\* C12: in the spawned task of both paths the handoff never holds more than one
\* undelivered event, and the task takes the next backend event only when every
\* client event converted from the earlier backend events has been accepted by the
\* handoff; a client that stops reading stops the consumption at the first
\* further backend event whose client events the handoff cannot accept, while
\* backend events that convert to nothing are still consumed.
C12_BackPressure == [][C12Step]_vars

\* the client reads nothing; the task has consumed backend events and waits with an
\* event for the full handoff
C12_Witness ==
    /\ task_pc = "send"
    /\ client = "reading"
    /\ received = <<>>
    /\ Len(channel) = ChannelCapacity
    /\ pending # <<>>
    /\ Len(input) = 3

\* C12 as stated: the same, and a client that stops reading stops backend
\* consumption after at most one further backend event: once MessageStart has
\* filled the handoff of a client that reads nothing, at most one more backend
\* event is consumed.
C12_OneFurtherBackendEvent ==
    [][ /\ C12Step
        /\ ( /\ received' = <<>>
             /\ client' = "reading"
             /\ input' # <<>> )
           => (input'[1].type = "MessageStart" => Len(input') <= 2) ]_vars

\* a step in which a send of the task fails: the task leaves the send and the
\* handoff has taken nothing
FailedSend ==
    /\ task_pc \in {"send", "send_error", "send_done"}
    /\ task_pc' # task_pc
    /\ channel' = channel

\* C13: in the spawned task of both paths the first send that fails, because the
\* receiver is gone or the send timeout elapsed, is the task's last action: the task
\* is over right after it, and a task that is over takes nothing from the backend
\* and sends nothing.
C13_FailedSendIsLastAction ==
    [][ /\ FailedSend => task_pc' = "done"
        /\ task_pc = "done" =>
              /\ task_pc' = "done"
              /\ input' = input
              /\ Len(channel') <= Len(channel) ]_vars

Pings(s) == Len(SelectSeq(s, LAMBDA x : x.type = "ping"))

C14Step ==
    \* the tick is taken exactly when select! finds the backend with nothing ready,
    \* and taking it is sending one ping
    /\ (tick_due /\ ~tick_due' /\ task_pc' # "done") =>
          /\ task_pc = "select"
          /\ backend_ready = None
          /\ task_pc' = "send"
          /\ pending' = <<PingEvent>>
    \* a backend event that is ready goes first
    /\ (task_pc = "select" /\ IsSome(backend_ready) /\ task_pc' # task_pc) =>
          tick_due' = tick_due \/ task_pc' = "done"
    \* for a client that reads, every tick that fired is a ping sent or on its way
    /\ (client' = "reading" /\ task_pc' # "done") =>
          ticks' = Pings(received' \o channel' \o pending')
                   + (IF tick_due' THEN 1 ELSE 0)

\* C14: on the Messages path the task waits on the backend and on the heartbeat
\* together: a tick that fires while the backend has nothing ready makes the task
\* send exactly one ping, whatever backend events came before, and for a client
\* that reads no tick is lost or answered twice.
C14_PingPerTick == [][C14Step]_vars

\* the backend has been silent and the client has received the ping of the tick
C14_Witness ==
    /\ impl = "process_bedrock_stream"
    /\ input = <<>>
    /\ backend_ready = None
    /\ ticks = 1
    /\ received = <<PingEvent>>

DoneFrames(s) == Len(SelectSeq(s, LAMBDA x : x.type = "done"))

C15Step ==
    LET frames == received' \o channel'
    IN  \* the end of the backend stream, normal or not, leads to the [DONE] send
        /\ (TakesFromBackend /\ backend_ready = Some(EndOfStream)) =>
              task_pc' = "send_done" /\ pending' = <<DoneFrame>>
        /\ (TakesFromBackend /\ backend_ready = Some(ReceiveError)) =>
              task_pc' = "send_error"
        /\ (task_pc = "send_error" /\ task_pc' # task_pc) =>
              task_pc' = "send_done" /\ pending' = <<DoneFrame>>
        \* which a client that reads and leaves room in the handoff gets
        /\ (task_pc = "send_done" /\ task_pc' # task_pc) =>
              /\ task_pc' = "done"
              /\ (client = "reading" /\ Len(channel) < ChannelCapacity) =>
                    channel' = Append(channel, DoneFrame)
        \* once, and as the last frame
        /\ DoneFrames(frames) <= 1
        /\ DoneFrames(frames) = 1 => Last(frames) = DoneFrame
        /\ DoneFrames(received') = 1 => task_pc' = "done" /\ channel' = <<>>

\* C15: on the Chat Completions path, when the backend stream ends, normally or with
\* a receive error, the task sends the [DONE] frame to the handoff of a client that
\* is still reading: exactly one [DONE] frame, as the last frame, with no chunk
\* after it.
C15_DoneFrameLast == [][C15Step]_vars

\* the stream ended with a receive error and the client has read a chunk, the error
\* item and the [DONE] frame
C15_Witness ==
    /\ impl = "chat_completions"
    /\ task_pc = "done"
    /\ backend_closed
    /\ Len(received) = 3
    /\ received[1].type = "chunk"
    /\ received[2] = ErrorItem
    /\ received[3] = DoneFrame

\* C16: a Messages or Chat Completions request with stream: false is rejected
\* before any backend call is made, and the response status is 400.
C16_StreamFalseIs400 ==
    (/\ handler_pc = "responded"
     /\ http_request[1].endpoint \in {"v1_messages", "chat_completions"}
     /\ StreamIsFalse)
    => (backend_calls = 0 /\ http_status = Some(400))

\* a failure that carries an upstream HTTP response
CarriesUpstreamResponse(err) == IsSome(err.raw)

\* C17: AppError::from gives a failure that carries an upstream response that
\* response's status, and every other failure 500; it always gives a status.
C17_UpstreamStatusOr500 ==
    (handler_pc = "responded" /\ IsSome(failure))
    => /\ IsSome(http_status)
       /\ CarriesUpstreamResponse(failure[1]) => http_status = failure[1].raw
       /\ ~CarriesUpstreamResponse(failure[1]) => http_status = Some(500)

C17_Witness ==
    /\ handler_pc = "responded"
    /\ IsSome(failure)
    /\ failure[1].source = "SdkError<CountTokensError>"
    /\ failure[1].variant = "ServiceError"
    /\ failure[1].raw = Some(429)
    /\ http_status = Some(429)

\* the translation has been made and gave a block list
TranslationDone == IsSome(content_blocks) /\ content_blocks[1].ok

\* the final translated list
FinalBlocks ==
    IF contents[1].kind = "tools"
    THEN IF content_blocks[1].value = None THEN <<>> ELSE content_blocks[1].value[1]
    ELSE content_blocks[1].value

\* the backend block a request block is to become
TranslationOf(c) ==
    BedrockBlock(CASE c.type = "text" -> "Text"
                   [] c.type = "image" -> "Image"
                   [] c.type = "document" -> "Document"
                   [] c.type = "tool_result" -> "ToolResult"
                   [] c.type = "tool_use" -> "ToolUse"
                   [] c.type = "thinking" -> "ReasoningContent"
                   [] c.type = "tool" -> "ToolSpec",
                 c.id)

CachedBlocks == {i \in 1..Len(contents[1].blocks) : contents[1].blocks[i].cache_control}

\* C18: in the final translated list of system blocks, user content, assistant
\* content and tool definitions, the translation of every block that carries
\* cache_control is immediately followed by exactly one cache point, and no
\* cache point stands anywhere else.
C18_CachePointFollowsItsBlock ==
    (TranslationDone /\ contents[1].kind \in {"system", "user", "assistant", "tools"}) =>
        LET l == FinalBlocks
            src == contents[1].blocks
        IN  /\ \A i \in CachedBlocks :
                  \E j \in 1..(Len(l) - 1) :
                      /\ l[j] = TranslationOf(src[i])
                      /\ l[j + 1] = CachePoint
                      /\ (j + 2 <= Len(l)) => l[j + 2] # CachePoint
            /\ \A j \in 1..Len(l) :
                  l[j] = CachePoint =>
                      /\ j > 1
                      /\ \E i \in CachedBlocks : l[j - 1] = TranslationOf(src[i])

C18_Witness ==
    /\ TranslationDone
    /\ contents[1].kind = "assistant"
    /\ Len(contents[1].blocks) = 2
    /\ contents[1].blocks[1].type = "text" /\ contents[1].blocks[1].cache_control
    /\ contents[1].blocks[2].type = "thinking"
    /\ FinalBlocks = <<BedrockBlock("ReasoningContent", 2), BedrockBlock("Text", 1), CachePoint>>

\* C19: the translated block list of a user message with at least one
\* tool_result block and at least one other block has every tool-result block
\* before every other block, the order inside each group kept.
C19_ToolResultsFirst ==
    (/\ TranslationDone
     /\ contents[1].kind = "user"
     /\ \E i \in 1..Len(contents[1].blocks) : contents[1].blocks[i].type = "tool_result"
     /\ \E i \in 1..Len(contents[1].blocks) : contents[1].blocks[i].type # "tool_result")
    => LET l == FinalBlocks
       IN  \A i, j \in 1..Len(l) :
               i < j =>
                   /\ ~(l[i].type # "ToolResult" /\ l[j].type = "ToolResult")
                   /\ (l[i].type = "ToolResult" /\ l[j].type = "ToolResult") => l[i].id < l[j].id

\* the translation of each block in the order of the request, a cache point
\* after each block that carries cache_control
RECURSIVE InRequestOrder(_)
InRequestOrder(src) ==
    IF src = <<>> THEN <<>>
    ELSE <<TranslationOf(Head(src))>>
         \o (IF Head(src).cache_control THEN <<CachePoint>> ELSE <<>>)
         \o InRequestOrder(Tail(src))

Occurrences(b, l) == Cardinality({i \in 1..Len(l) : l[i] = b})

\* C20: the translated block list of an assistant block array has every
\* reasoning block before every other block, keeps the order among the
\* reasoning blocks and among the others, and holds the same blocks, each as
\* often, as the translation in request order.
C20_ReasoningFirst ==
    (TranslationDone /\ contents[1].kind = "assistant" /\ contents[1].form = "array")
    => LET l == FinalBlocks
           unreordered == InRequestOrder(contents[1].blocks)
       IN  /\ \A i, j \in 1..Len(l) :
                  i < j => ~(~IsReasoningContent(l[i]) /\ IsReasoningContent(l[j]))
           /\ SelectSeq(l, IsReasoningContent) = SelectSeq(unreordered, IsReasoningContent)
           /\ SelectSeq(l, IsNotReasoningContent) = SelectSeq(unreordered, IsNotReasoningContent)
           /\ Len(l) = Len(unreordered)
           /\ \A k \in 1..Len(unreordered) :
                  Occurrences(unreordered[k], l) = Occurrences(unreordered[k], unreordered)

C20_Witness ==
    /\ TranslationDone
    /\ contents[1].kind = "assistant"
    /\ Len(contents[1].blocks) = 3
    /\ contents[1].blocks[1].type = "text" /\ contents[1].blocks[1].cache_control
    /\ contents[1].blocks[2].type = "thinking"
    /\ contents[1].blocks[3].type = "thinking"
    /\ FinalBlocks = <<BedrockBlock("ReasoningContent", 2), BedrockBlock("ReasoningContent", 3),
                       BedrockBlock("Text", 1), CachePoint>>

\* the conversion that serves a kind of content
TranslateContents(cs) ==
    CASE cs.kind = "user" -> UserContentsToBlocks(cs)
      [] cs.kind = "assistant" -> AssistantContentsToBlocks(cs)
      [] cs.kind = "system" -> SystemsToBlocks(cs)
      [] cs.kind = "tools" -> tools_to_bedrock_tools(cs)
      [] cs.kind \in {"user_message", "assistant_message"} -> MessageToBedrockMessage(cs)

IsNotThinking(c) == c.type # "thinking"

WithoutThinking(cs) ==
    [kind |-> cs.kind, form |-> cs.form, blocks |-> SelectSeq(cs.blocks, IsNotThinking)]

\* C21: no backend message made from an assistant message holds a
\* reasoning-content block, and the other blocks are translated as if the
\* thinking blocks were absent.
C21_ThinkingNeverForwarded ==
    (TranslationDone /\ contents[1].kind \in {"assistant", "assistant_message"})
    => /\ \A j \in 1..Len(FinalBlocks) : ~IsReasoningContent(FinalBlocks[j])
       /\ FinalBlocks = TranslateContents(WithoutThinking(contents[1])).value

\* a block whose media type is not supported, also inside a tool_result
HasUnsupportedMedia(c) ==
    CASE c.type = "image" -> c.media_type \notin SupportedImageMediaTypes
      [] c.type = "document" -> c.media_type \notin SupportedDocumentMediaTypes
      [] c.type = "tool_result" ->
            IF c.media_type = "" THEN FALSE ELSE c.media_type \notin SupportedImageMediaTypes
      [] OTHER -> FALSE

\* C22: the translation of a user message fails as a whole whenever one of
\* its blocks, also one inside a tool_result, has an unsupported media type.
C22_UnsupportedMediaFailsRequest ==
    (/\ IsSome(content_blocks)
     /\ contents[1].kind \in {"user", "user_message"}
     /\ \E i \in 1..Len(contents[1].blocks) : HasUnsupportedMedia(contents[1].blocks[i]))
    => ~content_blocks[1].ok

\* a call of fn has returned
Returned(fn) == IsSome(call) /\ call[1].fn = fn /\ IsSome(returned)

IsEffort(output_config) ==
    IF IsSome(output_config) THEN output_config[1].variant = "Effort" ELSE FALSE

IsEmptyList(anthropic_beta) ==
    IF IsSome(anthropic_beta) THEN anthropic_beta[1] = <<>> ELSE TRUE

\* the top-level keys of the sub-documents that are present for a call
PresentKeys(c) ==
    (IF IsSome(c.thinking) THEN DOMAIN ThinkingDocument(c.thinking[1]) ELSE {})
    \cup (IF IsEffort(c.output_config)
            THEN DOMAIN get_output_config_effort_document(c.output_config[1].effort) ELSE {})
    \cup (IF IsEmptyList(c.anthropic_beta) THEN {} ELSE {"anthropic_beta"})

\* C23: get_additional_model_request_fields returns None when thinking is
\* absent, output_config is absent or no effort config and the beta-flag list
\* is absent or empty; otherwise it returns one object whose top-level keys are
\* the union of the keys of the sub-documents that are present.
C23_NoneOrKeyUnion ==
    Returned("get_additional_model_request_fields")
    => LET c == call[1]
           r == returned[1]
       IN IF c.thinking = None /\ ~IsEffort(c.output_config) /\ IsEmptyList(c.anthropic_beta)
            THEN r = None
            ELSE IsSome(r) /\ DOMAIN r[1] = PresentKeys(c)

C23_Witness ==
    /\ Returned("get_additional_model_request_fields")
    /\ IsSome(call[1].thinking)
    /\ IsEffort(call[1].output_config)
    /\ ~IsEmptyList(call[1].anthropic_beta)
    /\ IsSome(returned[1])
    /\ DOMAIN returned[1][1] = {"thinking", "output_config", "anthropic_beta"}

\* C24: whenever an effort output-config is given, the merged document holds
\* output_config.effort, its anthropic_beta list holds the effort beta flag, and
\* it holds every flag of the caller's beta-flag list.
C24_EffortFlagNeverDropped ==
    ((Returned("get_additional_model_request_fields")
        \/ Returned("additional_model_request_fields"))
     /\ IsEffort(call[1].output_config))
    => LET c == call[1]
           r == returned[1]
       IN /\ IsSome(r)
          /\ "output_config" \in DOMAIN r[1]
          /\ r[1]["output_config"].effort = c.output_config[1].effort
          /\ "anthropic_beta" \in DOMAIN r[1]
          /\ Contains(r[1]["anthropic_beta"], EffortBetaFlag)
          /\ (c.fn = "get_additional_model_request_fields" /\ IsSome(c.anthropic_beta))
                => \A i \in 1..Len(c.anthropic_beta[1]) :
                        Contains(r[1]["anthropic_beta"], c.anthropic_beta[1][i])

\* a flag is requested: it is one of the trimmed pieces of the header values
IsRequested(b) == Contains(RequestedOf(call[1].headers), <<b>>)

\* C25 as stated: only whitelisted, requested flags are forwarded, each
\* requested whitelisted flag exactly once, and nothing (None) when no
\* requested flag is whitelisted.
C25_EachRequestedFlagOnce ==
    Returned("filter_anthropic_beta")
    => LET w == call[1].whitelist
           r == returned[1]
           wanted == {b \in BetaFlags : Contains(w, b) /\ IsRequested(b)}
       IN IF wanted = {} THEN r = None
          ELSE /\ IsSome(r)
               /\ \A i \in 1..Len(r[1]) : r[1][i] \in wanted
               /\ \A b \in wanted : Occurrences(b, r[1]) = 1

\* C25: filter_anthropic_beta forwards the whitelist entries that are
\* requested, in the order of the whitelist and each as often as the whitelist
\* lists it (once when the whitelist has no duplicates); it returns None when
\* no requested flag is whitelisted.
C25_WhitelistEntriesRequested ==
    Returned("filter_anthropic_beta")
    => LET w == call[1].whitelist
           r == returned[1]
           wanted == {b \in BetaFlags : Contains(w, b) /\ IsRequested(b)}
       IN IF wanted = {} THEN r = None
          ELSE /\ IsSome(r)
               /\ r[1] # <<>>
               /\ \A b \in BetaFlags :
                    Occurrences(b, r[1]) = (IF b \in wanted THEN Occurrences(b, w) ELSE 0)
               /\ \A i, j \in 1..Len(r[1]) :
                    i < j => \E k, l \in 1..Len(w) : k < l /\ w[k] = r[1][i] /\ w[l] = r[1][j]

C25_Witness ==
    /\ Returned("filter_anthropic_beta")
    /\ IsSome(returned[1])
    /\ Len(returned[1][1]) = 2
    /\ \E b \in BetaFlags : Occurrences(b, call[1].whitelist) = 1 /\ IsRequested(b)
    /\ \E i \in 1..Len(RequestedOf(call[1].headers)) :
            RequestedOf(call[1].headers)[i] = <<"unknown-beta">>

\* the tool choice a translation produced: Option<BedrockToolChoice>
TranslatedToolChoice ==
    IF call[1].fn = "ToolChoice::try_from"
        THEN (IF returned[1].ok THEN returned[1].value ELSE None)
        ELSE returned[1]

\* C26: on the Chat Completions path "auto" becomes Auto, "any" and
\* "required" become Any, the object form becomes Specific with the function
\* name, and an unrecognized string becomes Auto, never an error.
C26_ToolChoiceMapping ==
    (Returned("ToolChoice::try_from")
        \/ (Returned("convert_openai_tools_to_bedrock_tool_config")
                /\ IsSome(call[1].request_tool_choice)))
    => LET c == IF call[1].fn = "ToolChoice::try_from" THEN call[1].tool_choice
                ELSE call[1].request_tool_choice[1]
       IN /\ (call[1].fn = "ToolChoice::try_from") => returned[1].ok
          /\ IF c.variant = "Object"
                THEN TranslatedToolChoice = Some(SpecificToolChoice(c.function.name))
             ELSE IF c.s \in {"any", "required"}
                THEN TranslatedToolChoice = Some(AnyToolChoice)
             ELSE IF c.s = "none" THEN TRUE
             ELSE TranslatedToolChoice = Some(AutoToolChoice)

\* the finalisation has returned
Finalized == IsSome(request_tool_calls)

\* the fragments of the example: a name, then two argument fragments, no id
ExampleFragments ==
    <<ResponseToolCall(Some(0), None, Some(Function(Some("f"), None))),
      ResponseToolCall(Some(0), None, Some(Function(None, Some(<<"{\"a\"">>)))),
      ResponseToolCall(Some(0), None, Some(Function(None, Some(<<"\":1}">>))))>>

\* C27: the example fragments, none with an id, finalize to exactly one call, named
\* f, with the arguments {"a":1}.
C27_ExampleReassembles ==
    (Finalized /\ tool_call_chunks = ExampleFragments)
    => /\ request_tool_calls[1].ok
       /\ Len(request_tool_calls[1].value) = 1
       /\ request_tool_calls[1].value[1].function.name = "f"
       /\ request_tool_calls[1].value[1].function.arguments = <<"{\"a\"", ":1}">>

\* the arguments a fragment carries, empty when it carries none
ArgsOf(chunk) ==
    IF IsSome(chunk.function)
        THEN (IF IsSome(chunk.function[1].arguments) THEN chunk.function[1].arguments[1]
              ELSE <<>>)
        ELSE <<>>

\* the calls accumulated before the finalisation, as [id, name, arguments]
AccumulatedCalls ==
    IF impl = "processor::DeltaProcessor"
        THEN LET acc == AccumulateById(tool_call_chunks, <<>>, None)
             IN IF acc.ok
                  THEN {[id |-> acc.value[k].id, name |-> acc.value[k].function.name,
                         arguments |-> acc.value[k].function.arguments] :
                            k \in 1..Len(acc.value)}
                  ELSE {}
    ELSE IF impl = "DeltaProcessor"
        THEN LET m == ChunksByIndex(tool_call_chunks, <<>>)
             IN {[id |-> m[k].id, name |-> m[k].function.name,
                  arguments |-> m[k].function.arguments] : k \in DOMAIN m}
    ELSE {[id |-> IF IsSome(tool_calls_map[k].id) THEN tool_calls_map[k].id[1] ELSE "",
           name |-> IF IsSome(tool_calls_map[k].function)
                      THEN (IF IsSome(tool_calls_map[k].function[1].name)
                              THEN tool_calls_map[k].function[1].name[1] ELSE "")
                      ELSE "",
           arguments |-> ArgsOf(tool_calls_map[k])] : k \in DOMAIN tool_calls_map}

\* C28: every finalized call whose accumulated arguments are empty or
\* whitespace has the arguments {} in the completed list, whatever its id and
\* name are.
C28_BlankArgumentsBecomeEmptyObject ==
    (Finalized /\ request_tool_calls[1].ok)
    => \A p \in AccumulatedCalls :
          TrimIsEmpty(p.arguments)
          => \E i \in 1..Len(request_tool_calls[1].value) :
                /\ request_tool_calls[1].value[i].id = p.id
                /\ request_tool_calls[1].value[i].function.name = p.name
                /\ request_tool_calls[1].value[i].function.arguments = EmptyObject

\* the id of the latest fragment before the i-th that carries one
LastIdBefore(i) ==
    LET S == {j \in 1..(i - 1) : IsSome(tool_call_chunks[j].id)}
    IN IF S = {} THEN None
       ELSE tool_call_chunks[CHOOSE j \in S : \A l \in S : l <= j].id

\* the i-th fragment carries an id different from that of the open call
IdChangesAt(i) ==
    IF IsSome(tool_call_chunks[i].id) THEN tool_call_chunks[i].id # LastIdBefore(i) ELSE FALSE

\* the number of the call that is open once the i-th fragment has been read
OpenAt(i) == Cardinality({j \in 1..i : IdChangesAt(j)})

RECURSIVE ArgumentsOfCall(_, _)
\* the arguments of the fragments from the i-th on that arrive while call k is open
ArgumentsOfCall(k, i) ==
    IF i > Len(tool_call_chunks) THEN <<>>
    ELSE (IF OpenAt(i) = k THEN ArgsOf(tool_call_chunks[i]) ELSE <<>>)
         \o ArgumentsOfCall(k, i + 1)

\* the name call k ends with: that of the last fragment that names it
NameOfCall(k) ==
    LET S == {i \in 1..Len(tool_call_chunks) :
                /\ OpenAt(i) = k
                /\ IF IsSome(tool_call_chunks[i].function)
                     THEN IsSome(tool_call_chunks[i].function[1].name) ELSE FALSE}
    IN IF S = {} THEN ""
       ELSE tool_call_chunks[CHOOSE i \in S : \A l \in S : l <= i].function[1].name[1]

\* C29: response_tool_calls_to_request_tool_calls opens a call exactly at each
\* fragment with an id different from that of the open call and every other
\* fragment extends the open call: the completed list has one call per such
\* change, with the id of the fragment that opened it, the last name and all
\* the arguments of the fragments that arrived while it was open ({} when
\* these are blank).
C29_CallOpensAtIdChange ==
    (Finalized /\ impl = "processor::DeltaProcessor" /\ tool_call_chunks # <<>>)
    => /\ request_tool_calls[1].ok
       /\ Len(request_tool_calls[1].value) = OpenAt(Len(tool_call_chunks))
       /\ \A k \in 1..Len(request_tool_calls[1].value) :
            LET tc == request_tool_calls[1].value[k]
                opening == CHOOSE i \in 1..Len(tool_call_chunks) :
                                OpenAt(i) = k /\ IdChangesAt(i)
            IN /\ tc.id = tool_call_chunks[opening].id[1]
               /\ tc.function.name = NameOfCall(k)
               /\ tc.function.arguments =
                    (IF TrimIsEmpty(ArgumentsOfCall(k, 1)) THEN EmptyObject
                     ELSE ArgumentsOfCall(k, 1))

\* the key under which the index accumulators file the i-th fragment
IndexKey(chunk) ==
    IF impl = "DeltaProcessor"
        THEN (IF IsSome(chunk.index) THEN chunk.index[1] ELSE 0)
        ELSE (IF IsSome(chunk.index) THEN (IF chunk.index[1] = 0 THEN "0" ELSE "1")
              ELSE "default")

RECURSIVE ArgumentsOfIndex(_, _)
\* the arguments of the fragments from the i-th on that are filed under key
ArgumentsOfIndex(key, i) ==
    IF i > Len(tool_call_chunks) THEN <<>>
    ELSE (IF IndexKey(tool_call_chunks[i]) = key THEN ArgsOf(tool_call_chunks[i]) ELSE <<>>)
         \o ArgumentsOfIndex(key, i + 1)

\* C30: before the finalisation the arguments accumulated for a call are the
\* argument fragments attributed to it, joined in arrival order, none
\* dropped, trimmed or altered, whitespace fragments included.
C30_ArgumentsAreTheFragmentsJoined ==
    IF impl = "processor::DeltaProcessor"
        THEN LET acc == AccumulateById(tool_call_chunks, <<>>, None)
             IN acc.ok => \A k \in 1..Len(acc.value) :
                            acc.value[k].function.arguments = ArgumentsOfCall(k, 1)
    ELSE IF impl = "DeltaProcessor"
        THEN LET m == ChunksByIndex(tool_call_chunks, <<>>)
             IN \A key \in DOMAIN m : m[key].function.arguments = ArgumentsOfIndex(key, 1)
    ELSE IF impl = "Chat"
        THEN \A key \in DOMAIN tool_calls_map :
                ArgsOf(tool_calls_map[key]) = ArgumentsOfIndex(key, 1)
    ELSE TRUE

\* C31: every tool call of a completed list has arguments that parse as
\* JSON; arguments that are malformed after reassembly never fail the
\* finalisation and are never handed on.
C31_CompletedArgumentsParse ==
    (Finalized /\ request_tool_calls[1].ok)
    => \A i \in 1..Len(request_tool_calls[1].value) :
            IsJson(request_tool_calls[1].value[i].function.arguments)

\* the positions of s that hold an event of type t
PositionsOf(s, t) == {k \in 1..Len(s) : s[k].type = t}

\* C32: when the backend has delivered one MessageStop and one Metadata, in
\* either order, and the stream has ended without a receive error, the client
\* has been sent exactly one message_delta, directly followed by exactly one
\* message_stop.
C32_TerminalEventsOnce ==
    (/\ GeneratorServes
     /\ finished
     /\ Cardinality(PositionsOf(input, "MessageStop")) = 1
     /\ Cardinality(PositionsOf(input, "Metadata")) = 1
     /\ PositionsOf(out, "error") = {})
    => /\ Cardinality(PositionsOf(out, "message_delta")) = 1
       /\ Cardinality(PositionsOf(out, "message_stop")) = 1
       /\ \A k \in PositionsOf(out, "message_delta") : (k + 1) \in PositionsOf(out, "message_stop")

\* C33: once the client has disconnected, the request task of either path
\* eventually terminates, whatever the backend does afterwards (silent, or only
\* events that convert to nothing)
C33_DisconnectEndsTask == (client = "gone") ~> (task_pc = "done")

\* C34: after a receive error of the backend stream the loop hands the client
\* exactly one error item, asks the backend stream for nothing more, and ends
C34_ReceiveErrorEndsStream ==
    /\ [](ReceiveErrors(input) # {}
            => /\ Cardinality(PositionsOf(out, "error")) = 1
               /\ \A k \in ReceiveErrors(input) : k = Len(input))
    /\ (ReceiveErrors(input) # {}) ~> finished

\* the input fragments of block index i in the backend events s, joined
RECURSIVE BlockInput(_, _)
BlockInput(s, i) ==
    IF s = <<>> THEN <<>>
    ELSE (IF s[1].type = "ContentBlockDelta" /\ s[1].content_block_index = i
            THEN Symbols(s[1].delta.input) ELSE <<>>) \o BlockInput(Tail(s), i)

HasInput(s, i) ==
    \E k \in 1..Len(s) : s[k].type = "ContentBlockDelta" /\ s[k].content_block_index = i

\* tool_call is the call expected for block index i
IsCallOfBlock(tool_call, s, i) ==
    /\ tool_call.id = ToolUseBlockStart(i).tool_use_id
    /\ tool_call.function.name = ToolUseBlockStart(i).name
    /\ tool_call.function.arguments = (IF HasInput(s, i) THEN BlockInput(s, i) ELSE EmptyObject)

\* the client has been fed, in order, every chunk built from the backend's events
FedInOrder == SelectSeq(received, LAMBDA item : item.type = "chunk") = out

\* C35: the chunks built from a backend stream of tool-use blocks, once all fed
\* in order to the client accumulator, finalize in
\* the client accumulator to exactly one call per backend block, with the
\* block's id and name and the concatenation of its own input fragments
\* ('{}' when it had none)
C35_RoundTripOneCallPerBlock ==
    Finalized /\ FedInOrder
    => /\ request_tool_calls[1].ok
       /\ Len(request_tool_calls[1].value) = Cardinality(StartedBlocks(input))
       /\ \A i \in StartedBlocks(input) :
            \E k \in 1..Len(request_tool_calls[1].value) :
                IsCallOfBlock(request_tool_calls[1].value[k], input, i)

\* the request messages and the outcome of the call of
\* process_chat_completions_request_to_bedrock_chat_completion
RequestMessagesOfCall == call[1].messages

BackendMessages ==
    IF IsSome(returned[1].value.messages) THEN returned[1].value.messages[1] ELSE <<>>

BackendSystemBlocks ==
    IF IsSome(returned[1].value.system_content_blocks)
        THEN returned[1].value.system_content_blocks[1] ELSE <<>>

\* the positions that yield a backend message: every Assistant and User
\* message, and the first Tool message of every maximal run
MessageAnchors(ms) ==
    {k \in 1..Len(ms) :
        IF ms[k].role \in {"assistant", "user"} THEN TRUE
        ELSE IF ms[k].role # "tool" THEN FALSE
        ELSE IF k = 1 THEN TRUE
        ELSE ms[k - 1].role # "tool"}

\* the j-th element of a set of positions, in ascending order
NthOf(positions, j) ==
    CHOOSE k \in positions : Cardinality({a \in positions : a <= k}) = j

\* the Tool messages of the maximal run that starts at k
ToolRunFrom(ms, k) ==
    {i \in k..Len(ms) : \A x \in k..i : ms[x].role = "tool"}

SystemPositions(ms) ==
    {k \in 1..Len(ms) : ms[k].role = "system" /\ ms[k].has_contents}

\* C36: the backend messages follow the input order without the System
\* messages, whose content makes up the system blocks in order; every maximal
\* run of consecutive Tool messages is one User message with one tool-result
\* block per Tool message, in the run's order; every Assistant and User
\* message is exactly one backend message
C36_MessagesInOrderToolRunsMerged ==
    (/\ Returned("process_chat_completions_request_to_bedrock_chat_completion")
     /\ returned[1].ok)
    => LET ms == RequestMessagesOfCall
           anchors == MessageAnchors(ms)
           systems == SystemPositions(ms)
       IN /\ Len(BackendMessages) = Cardinality(anchors)
          /\ \A j \in 1..Len(BackendMessages) :
                LET k == NthOf(anchors, j)
                    message == BackendMessages[j]
                IN IF ms[k].role = "tool"
                     THEN /\ message.role = "user"
                          /\ Len(message.content) = Cardinality(ToolRunFrom(ms, k))
                          /\ \A n \in 1..Len(message.content) :
                                /\ message.content[n].type = "tool_result"
                                /\ message.content[n].text = k + n - 1
                     ELSE /\ message.role = ms[k].role
                          /\ \A n \in 1..Len(message.content) :
                                /\ message.content[n].type \in {"text", "tool_use"}
                                /\ message.content[n].type = "text"
                                        => message.content[n].text = k
                          /\ ms[k].has_contents
                                => /\ message.content # <<>>
                                   /\ message.content[1].type = "text"
          /\ Len(BackendSystemBlocks) = Cardinality(systems)
          /\ \A n \in 1..Len(BackendSystemBlocks) :
                BackendSystemBlocks[n].text = NthOf(systems, n)

\* a request with a run of two Tool messages, a System message with content
\* and a second run has been converted
C36_Witness ==
    /\ Returned("process_chat_completions_request_to_bedrock_chat_completion")
    /\ returned[1].ok
    /\ \E k \in 1..(Len(RequestMessagesOfCall) - 1) :
            /\ RequestMessagesOfCall[k].role = "tool"
            /\ RequestMessagesOfCall[k + 1].role = "tool"
    /\ SystemPositions(RequestMessagesOfCall) # {}
    /\ Len(BackendMessages) = 2
    /\ Len(BackendSystemBlocks) = 1

\* the positions before k of the content_block_start events of index i in o
StartsBefore(o, k, i) ==
    {j \in 1..(k - 1) : o[j].type = "content_block_start" /\ o[j].index = i}

\* the greatest position of a non-empty set of positions
LastOf(positions) == CHOOSE j \in positions : \A x \in positions : x <= j

\* the delta types a block of a kind may carry
DeltaTypesOf(kind) ==
    CASE kind = "text" -> {"text_delta"}
      [] kind = "thinking" -> {"thinking_delta", "signature_delta"}
      [] kind = "tool_use" -> {"input_json_delta"}
      [] OTHER -> {}

\* the indices whose block is open in o: a content_block_start with no
\* content_block_stop after it
OpenBlocks(o) ==
    {i \in BlockIndices :
        /\ StartsBefore(o, Len(o) + 1, i) # {}
        /\ \A k \in 1..Len(o) :
              (o[k].type = "content_block_stop" /\ o[k].index = i)
                  => k < LastOf(StartsBefore(o, Len(o) + 1, i))}

\* C37: in process_anthropic_stream every content_block_delta is of a type the
\* kind of its index's content_block_start allows, and an open block's index is
\* held as thinking exactly when its content_block_start was of kind thinking
C37_StartKindAgreesWithDeltas ==
    GeneratorServes
    => /\ \A k \in PositionsOf(out, "content_block_delta") :
            /\ StartsBefore(out, k, out[k].index) # {}
            /\ out[k].delta.type \in
                  DeltaTypesOf(out[LastOf(StartsBefore(out, k, out[k].index))].content_block.type)
       /\ \A i \in OpenBlocks(out) :
            (i \in thinking_content_blocks)
                <=> (out[LastOf(StartsBefore(out, Len(out) + 1, i))].content_block.type
                        = "thinking")

\* the non-empty strings of a sequence of strings: what they add to a
\* concatenation
NonEmpty(strings) == SelectSeq(strings, LAMBDA x : x # "")

\* the payload strings a client event carries
ClientPayload(event) ==
    CASE event.type = "content_block_start" ->
            (CASE event.content_block.type = "text" -> <<event.content_block.text>>
               [] event.content_block.type = "thinking" ->
                     <<event.content_block.thinking, event.content_block.signature>>
               [] OTHER -> <<>>)
      [] event.type = "content_block_delta" ->
            (CASE event.delta.type = "text_delta" -> <<event.delta.text>>
               [] event.delta.type = "thinking_delta" -> <<event.delta.thinking>>
               [] event.delta.type = "signature_delta" -> <<event.delta.signature>>
               [] event.delta.type = "input_json_delta" -> <<event.delta.partial_json>>
               [] OTHER -> <<>>)
      [] OTHER -> <<>>

\* the payload string of a backend event
BackendPayload(event) ==
    IF event.type # "ContentBlockDelta" THEN <<>>
    ELSE CASE event.delta.kind \in {"text", "reasoning_text"} -> <<event.delta.text>>
           [] event.delta.kind = "reasoning_signature" -> <<event.delta.signature>>
           [] event.delta.kind = "tool_use" -> <<event.delta.input>>
           [] OTHER -> <<>>

RECURSIVE ClientPayloads(_, _)
\* the payloads of the client events of index i, in emission order
ClientPayloads(o, i) ==
    IF o = <<>> THEN <<>>
    ELSE (IF o[1].type \in {"content_block_start", "content_block_delta"}
            THEN (IF o[1].index = i THEN NonEmpty(ClientPayload(o[1])) ELSE <<>>)
            ELSE <<>>)
         \o ClientPayloads(Tail(o), i)

RECURSIVE BackendPayloads(_, _)
\* the payloads of the backend deltas of index i, in order
BackendPayloads(s, i) ==
    IF s = <<>> THEN <<>>
    ELSE (IF s[1].type = "ContentBlockDelta"
            THEN (IF s[1].content_block_index = i THEN NonEmpty(BackendPayload(s[1]))
                  ELSE <<>>)
            ELSE <<>>)
         \o BackendPayloads(Tail(s), i)

\* C38: EventConverter::convert loses no content: for every index the payloads
\* of the client events (the content of a synthesized content_block_start and
\* the payloads of the content_block_deltas), in emission order, are the
\* payloads of the backend deltas of that index, in order
C38_ConverterLosesNoContent ==
    impl = "EventConverter"
    => \A i \in BlockIndices : ClientPayloads(out, i) = BackendPayloads(input, i)

\* a block was opened by a synthesized content_block_start that holds the first
\* payload, and a content_block_delta of the same index has followed
C38_Witness ==
    /\ impl = "EventConverter"
    /\ \E j, k \in 1..Len(out) :
          /\ j < k
          /\ out[j].type = "content_block_start"
          /\ out[j].content_block.type \in {"text", "thinking"}
          /\ NonEmpty(ClientPayload(out[j])) # <<>>
          /\ out[k].type = "content_block_delta"
          /\ out[k].index = out[j].index
          /\ NonEmpty(ClientPayload(out[k])) # <<>>

====
